---- MODULE Spec2Model ----
(***************************************************************************)
(* Model of riven's download orchestrator (program/services/downloaders/   *)
(* __init__.py): Downloader.run as a generator stepping through            *)
(* pre-validation, the stream loop, probe cleanup and the final yield,     *)
(* with _enforce_version_retention, update_item_attributes and             *)
(* _update_attributes as operators on the item's state.  The item is a     *)
(* Movie (the leaf that carries filesystem_entries).                       *)
(***************************************************************************)
EXTENDS Integers, Sequences, FiniteSets, TLC

\* ------------------------------------------------------------------ bounds
MaxStreams == 2
MaxProviders == 2
MaxFiles == 2
MaxKeep == 1
MaxMedian == 1
MaxNow == 60
TickSecs == 60
MaxEntries == 3
MaxKeepArg == 2
MaxRespItems == 2
MaxEp == 3
MaxTitle == 3
MaxRel == 2
MaxSeasonNo == 2
MaxEpNo == 4
MaxYearDiff == 3
MaxKeepVersions == 2
MaxProfileCount == 3
ItemYear == 2000
MaxLeaves == 3
MaxValidations == 4

\* ------------------------------------------------------- program constants
CooldownSecs == 60
MaxCandidates == 5
YieldEvery == 3
MaxAttempts == 3
HashLen == 40
MinBtih == 32
JunkEpisodes == 2

\* ------------------------------------------------------------ value spaces
NoProfile == "none"
NoHash == ""
NoTid == <<>>
NoResult == [id |-> NoTid, infohash |-> NoHash, set |-> FALSE]
NoActive == [infohash |-> NoHash, id |-> NoTid]
EmptyMap == [k \in {} |-> 0]

AllServices == <<"realdebrid", "debridlink", "alldebrid">>
Hashes == {"Aa", "bb"}
Profiles == {"hq", NoProfile}
FileKinds == {"ok", "nourl", "nomatch"}

Range(s) == {s[i] : i \in DOMAIN s}

\* str.lower() on an infohash
Lower(h) == IF h = "Aa" THEN "aa" ELSE h

RECURSIVE SeqsUpTo(_, _)
SeqsUpTo(S, n) ==
    IF n = 0 THEN {<<>>}
    ELSE LET shorter == SeqsUpTo(S, n - 1)
         IN shorter \cup {Append(q, x) : q \in {r \in shorter : Len(r) = n - 1}, x \in S}

StreamValues == [infohash : Hashes, profile : Profiles]
FileLists == SeqsUpTo(FileKinds, MaxFiles) \ {<<>>}

\* the service list in construction order restricted to the initialized ones
InitializedServices(set) == SelectSeq(AllServices, LAMBDA k : k \in set)

MinOf(S) == CHOOSE x \in S : \A y \in S : x <= y

\* ---------------------------------------------------------------- state
VARIABLES
    initSet,        \* keys of the services whose .initialized is true
    cfgKeep,        \* get_keep_versions_for_profile(default profile)
    streams,        \* item.streams
    blacklisted,    \* item.blacklisted_streams
    entries,        \* item.filesystem_entries
    active,         \* item.active_stream
    cooldowns,      \* self._service_cooldowns
    cbRetries,      \* self._circuit_breaker_retries (item ids)
    now,            \* datetime.now()
    pc,             \* position of the run generator
    avail,          \* available_services
    keep,           \* keep_versions (local of run)
    desired,        \* desired_hashes
    todo,           \* streams_to_process still ahead (head = current)
    existing,       \* existing_infohashes
    success,        \* download_success
    hitCB,          \* hit_circuit_breaker
    tried,          \* tried_streams
    validated,      \* validated_containers
    unused,         \* unused_validated_torrents
    probes,         \* every torrent the pre-validation of this pass recorded
    pvLeft,         \* candidates_to_validate still to probe
    pvDone,         \* validated_candidates
    svcIdx,         \* index into available_services for the current stream
    failedAll,      \* stream_failed_on_all_services
    streamHitCB,    \* stream_hit_circuit_breaker
    dlResult,       \* download_result (unset until the first download returns)
    yields,         \* values yielded by the generator in this pass
    raised,         \* an exception left the generator
    deletes,        \* delete_torrent calls of this pass
    promoted,       \* torrents of streams counted as a success in this pass
    realFail,       \* an attempt on the current stream ended otherwise than in
                    \* CircuitBreakerOpen (error, not cached, no matching file)
    blCbOnly,       \* streams blacklisted in this pass whose attempts all ended in
                    \* CircuitBreakerOpen
    treated         \* how the pass ended: "success" / "failure" (lines 403-420),
                    \* "cooldown" (lines 76-83), "none" while it has not

itemVars == <<streams, blacklisted, entries, active>>
svcVars == <<cooldowns, cbRetries>>
cfgVars == <<initSet, cfgKeep>>
passVars == <<avail, keep, desired, todo, existing, success, hitCB, tried,
              validated, unused, probes, pvLeft, pvDone, svcIdx, failedAll,
              streamHitCB, dlResult, yields, raised, deletes, promoted, realFail, blCbOnly, treated>>
\* the downloader's state apart from the position
dlVars == <<cfgVars, itemVars, svcVars, now, passVars>>

VARIABLES
    \* PlexWatchlist (content/plex_watchlist.py)
    wlDb,           \* the stored item of each watchlist entry: whether it exists,
                    \* is Completed, has aliases.w2p_releases, its
                    \* aliases.w2p_attempt_count, and whether aliases.w2p_last_attempt
                    \* is less than 24 hours old
    wlBefore,       \* wlDb when the current cycle started
    wlHarvest,      \* items_to_harvest
    wlLeft,         \* items_to_harvest still to be submitted
    wlResults,      \* w2p_results, in insertion order
    wlFailed,       \* items whose harvester call failed in this cycle
    posts,          \* the "items" list of every POST to the harvest-item endpoint
    \* EpisodeValidationService (post_processing/episode_validation.py)
    evHave,         \* episode numbers of season.episodes
    evExpected,     \* _get_expected_episode_count (0 stands for None)
    evEnabled,      \* w2p_settings.enabled
    evMissing,      \* missing_episodes
    evReleases,     \* episode numbers for which the harvester returned releases
    evQueued,       \* what _queue_missing_episodes did in this run, in order
    \* Watchlist2PlexScraper (scrapers/watchlist2plex.py)
    rel,            \* one release of aliases.w2p_releases
    scraped,        \* the mapping run returns, as a set of <<key, title>>
    \* _parse_results (scrapers/shared.py)
    prItem,         \* the item being scraped
    prTorrent,      \* the ParsedData of one ranked torrent
    prAccepted,     \* whether the torrent reached torrents.add
    prRanked,       \* per profile: its keep_versions and ranked infohashes
    prCombined,     \* combined_streams, in insertion order
    \* FilesystemService (filesystem/filesystem_service.py)
    vfsReady,       \* self.riven_vfs is set
    fsSymlinks,     \* self.symlink_library_path is set
    fsLeaves,       \* items_to_process
    fsLeft,         \* leaves still to be processed
    vfsCalls,       \* calls made on riven_vfs and on the symlink helpers, in order
    fsYields        \* items yielded by run

wlVars == <<wlDb, wlBefore, wlHarvest, wlLeft, wlResults, wlFailed>>
evVars == <<evHave, evExpected, evEnabled, evMissing, evReleases, evQueued>>
w2pVars == <<rel, scraped>>
prVars == <<prItem, prTorrent, prAccepted, prRanked, prCombined>>
fsVars == <<vfsReady, fsSymlinks, fsLeaves, fsLeft, vfsCalls, fsYields>>

VARIABLES
    \* Downloader.update_item_attributes on a show, under the event scheduler
    shType,         \* item.type of the item that contains the episodes
    shFinal,        \* episodes whose state is Completed or Symlinked
    shInProgress,   \* item ids with an event in flight
    shWorker,       \* per worker: the item of its event, the container files
                    \* still to come, processed_episode_ids, found
    shWrites,       \* every write to an item's active_stream or filesystem_entries
    shStarted       \* events dispatched so far

shVars == <<shType, shFinal, shInProgress, shWorker, shWrites, shStarted>>

VARIABLES
    \* Downloader.run on two workers that share the Downloader
    ccServices,     \* keys of self.initialized_services
    ccCooldowns,    \* self._service_cooldowns: per key, whether its deadline
                    \* is still ahead ("active") or has passed ("expired")
    ccPc,           \* per worker: its position in run
    ccHit,          \* per worker: hit_circuit_breaker
    ccSuccess,      \* per worker: download_success
    ccMinEmpty,     \* min() was called on an empty _service_cooldowns
    ccRuns          \* calls of run so far

ccVars == <<ccServices, ccCooldowns, ccPc, ccHit, ccSuccess, ccMinEmpty, ccRuns>>

VARIABLES
    \* the schema migrations (alembic/versions)
    mgSchema,       \* per migration: whether its table, its column and the
                    \* column's index exist
    mgPc,           \* per migration: "idle", or "added" between op.add_column
                    \* and op.create_index
    mgDone,         \* per migration: the function that last returned
    mgError,        \* an operation raised
    mgOps           \* calls of upgrade and downgrade so far

mgVars == <<mgSchema, mgPc, mgDone, mgError, mgOps>>

VARIABLES
    \* RankingSettings.get_profile_name_for_path and select_top_n
    ppQuery,        \* the path asked for
    ppMappings,     \* path_profiles
    ppResult,       \* the profile name returned
    tnStreams,      \* the ordered mapping handed to select_top_n, as a
                    \* sequence of <<infohash, stream>> pairs
    tnKeep,         \* keep_versions
    tnResult        \* the mapping select_top_n returns

rsVars == <<ppQuery, ppMappings, ppResult, tnStreams, tnKeep, tnResult>>

VARIABLES
    \* Downloader.download_cached_stream_on_service
    dcContainer,    \* the container: torrent_id, whether torrent_info is cached,
                    \* file_ids
    dcAnswers,      \* how the provider answers get_torrent_info and select_files
    dcCalls,        \* the provider calls made, in order
    dcReturn        \* how the call ended, and the id of the DownloadedTorrent

dcVars == <<dcContainer, dcAnswers, dcCalls, dcReturn>>

VARIABLES
    \* the re-ranking of the pre-validated candidates
    mdCands,        \* validated_candidates before the sort
    mdTarget,       \* target_season (0 stands for None)
    mdSorted        \* validated_candidates after the sort

mdVars == <<mdCands, mdTarget, mdSorted>>

VARIABLES
    \* the stream loop of Downloader.run and its scheduling hints
    ydLeft,         \* streams_to_process still ahead (their number)
    ydKeep,         \* keep_versions
    ydExisting,     \* len(existing_infohashes)
    ydTried,        \* tried_streams
    ydYieldsAt      \* tried_streams at each "yield item" of the loop, in order

ydVars == <<ydLeft, ydKeep, ydExisting, ydTried, ydYieldsAt>>

\* the components modelled last
lateVars == <<dcVars, mdVars, ydVars>>

\* the components added after the filesystem service
extVars == <<shVars, ccVars, mgVars, rsVars, lateVars>>

\* everything but the downloader
otherVars == <<wlVars, posts, evVars, w2pVars, prVars, fsVars, extVars>>

vars == <<dlVars, pc, otherVars>>

\* the services a specification leaves at rest
WlIdle ==
    /\ wlDb = <<>> /\ wlBefore = <<>> /\ wlHarvest = <<>> /\ wlLeft = <<>>
    /\ wlResults = <<>> /\ wlFailed = {}
EvIdle ==
    /\ evHave = {} /\ evExpected = 0 /\ evEnabled = FALSE /\ evMissing = <<>>
    /\ evReleases = {} /\ evQueued = <<>>
W2pIdle == rel = <<>> /\ scraped = {}
PrIdle ==
    /\ prItem = <<>> /\ prTorrent = <<>> /\ prAccepted = FALSE
    /\ prRanked = <<>> /\ prCombined = <<>>
FsIdle ==
    /\ vfsReady = FALSE /\ fsSymlinks = FALSE /\ fsLeaves = <<>> /\ fsLeft = <<>>
    /\ vfsCalls = <<>>
    /\ fsYields = 0
ShIdle ==
    /\ shType = "show" /\ shFinal = {} /\ shInProgress = {} /\ shWorker = <<>>
    /\ shWrites = {} /\ shStarted = 0
CcIdle ==
    /\ ccServices = {} /\ ccCooldowns = <<>> /\ ccPc = <<>> /\ ccHit = <<>>
    /\ ccSuccess = <<>> /\ ccMinEmpty = FALSE /\ ccRuns = 0
MgIdle ==
    /\ mgSchema = <<>> /\ mgPc = <<>> /\ mgDone = <<>> /\ mgError = FALSE /\ mgOps = 0
RsIdle ==
    /\ ppQuery = <<>> /\ ppMappings = {} /\ ppResult = ""
    /\ tnStreams = <<>> /\ tnKeep = 0 /\ tnResult = <<>>
DcIdle == dcContainer = <<>> /\ dcAnswers = <<>> /\ dcCalls = <<>> /\ dcReturn = <<>>
MdIdle == mdCands = <<>> /\ mdTarget = 0 /\ mdSorted = <<>>
YdIdle ==
    /\ ydLeft = 0 /\ ydKeep = 0 /\ ydExisting = 0 /\ ydTried = 0 /\ ydYieldsAt = <<>>
LateIdle == DcIdle /\ MdIdle /\ YdIdle
ExtIdle == ShIdle /\ CcIdle /\ MgIdle /\ RsIdle /\ LateIdle

\* ------------------------------------------------- version retention
\* _sort_streams_by_quality (downloaders/shared.py): the quality-ranked order of
\* the item's Stream list, which the scraper keeps ranked
SortStreamsByQuality(strs) == strs

RECURSIVE DedupLower(_, _)
DedupLower(acc, hs) ==
    IF hs = <<>> THEN acc
    ELSE DedupLower(IF Lower(Head(hs)) \in Range(acc) THEN acc
                    ELSE Append(acc, Lower(Head(hs))), Tail(hs))

RECURSIVE DedupSeq(_, _)
DedupSeq(acc, xs) ==
    IF xs = <<>> THEN acc
    ELSE DedupSeq(IF Head(xs) \in Range(acc) THEN acc ELSE Append(acc, Head(xs)), Tail(xs))

MapSeq(q, F(_)) == [i \in DOMAIN q |-> F(q[i])]

\* keys of entries_by_profile, in insertion order
ProfileOrder(ents) == DedupSeq(<<>>, MapSeq(ents, LAMBDA e : e.profile))

\* keys of entries_by_profile[p], in insertion order
HashOrder(ents, p) ==
    DedupSeq(<<>>, MapSeq(SelectSeq(ents, LAMBDA e : e.profile = p),
                          LAMBDA e : Lower(e.infohash)))

\* entries_by_profile[p][h]
Group(ents, p, h) == SelectSeq(ents, LAMBDA e : e.profile = p /\ Lower(e.infohash) = h)

\* the inner "for entry in ...: append unless present; break when full" loop
RECURSIVE AddGroup(_, _, _)
AddGroup(acc, g, k) ==
    IF g = <<>> THEN acc
    ELSE LET a2 == IF Head(g) \in Range(acc) THEN acc ELSE Append(acc, Head(g))
         IN IF Len(a2) >= k THEN a2 ELSE AddGroup(a2, Tail(g), k)

\* the outer loops over hashes, which break once the profile's list is full
RECURSIVE Collect(_, _, _, _, _)
Collect(acc, ents, p, hs, k) ==
    IF hs = <<>> THEN acc
    ELSE LET a2 == AddGroup(acc, Group(ents, p, Head(hs)), k)
         IN IF Len(a2) >= k THEN a2 ELSE Collect(a2, ents, p, Tail(hs), k)

\* ordered_hashes
OrderedHashes(strs, des) ==
    IF des # <<>> THEN MapSeq(des, Lower)
    ELSE DedupLower(<<>>, MapSeq(SortStreamsByQuality(strs), LAMBDA s : s.infohash))

\* profile_keep_list of one profile
ProfileKeepList(ents, p, ordered, k) ==
    LET first == Collect(<<>>, ents, p,
                         SelectSeq(ordered, LAMBDA h : h \in Range(HashOrder(ents, p))), k)
    IN IF Len(first) < k
       THEN Collect(first, ents, p,
                    SelectSeq(HashOrder(ents, p), LAMBDA h : h \notin Range(ordered)), k)
       ELSE first

\* keep_list built by inserting each profile's list at the front
RECURSIVE KeepListPrepend(_, _, _, _)
KeepListPrepend(ents, ps, ordered, k) ==
    IF ps = <<>> THEN <<>>
    ELSE KeepListPrepend(ents, Tail(ps), ordered, k) \o ProfileKeepList(ents, Head(ps), ordered, k)

RECURSIVE KeepList(_, _, _, _)
KeepList(ents, ps, ordered, k) ==
    IF ps = <<>> THEN <<>>
    ELSE ProfileKeepList(ents, Head(ps), ordered, k) \o KeepList(ents, Tail(ps), ordered, k)

\* _enforce_version_retention(item, keep_versions, desired_hashes): the item's
\* filesystem_entries and active_stream afterwards
EnforceVersionRetention(ents, act, strs, keepArg, des) ==
    LET k == IF keepArg > 0 THEN keepArg ELSE 1
        kl == KeepList(ents, ProfileOrder(ents), OrderedHashes(strs, des), k)
    IN IF ents = <<>> THEN [entries |-> ents, active |-> act]
       ELSE [entries |-> kl,
             active |-> IF kl # <<>> /\ kl[1].infohash # NoHash
                        THEN [infohash |-> kl[1].infohash, id |-> act.id]
                        ELSE act]


\* ------------------------------------------------- file matching (Movie item)
FreshId(ents) == MinOf({n \in 1..(Len(ents) + 1) : \A i \in DOMAIN ents : ents[i].id # n})

\* _update_attributes without the (infohash, profile_name) lookup: always appends
UpdateAttributesAppend(ents, act, strs, file, dl, svc, k, profile) ==
    LET act1 == [infohash |-> dl.infohash, id |-> dl.id]
        new == [id |-> FreshId(ents), infohash |-> Lower(dl.infohash), profile |-> profile]
    IN IF file = "ok"
       THEN EnforceVersionRetention(Append(ents, new), act1, strs, k, <<>>)
       ELSE [entries |-> ents, active |-> act1]

\* _update_attributes(item, debrid_file, download_result, service, file_data,
\* keep_versions, profile_name) for a file that has (ok) or lacks (nourl) a
\* download_url
UpdateAttributes(ents, act, strs, file, dl, svc, k, profile) ==
    LET act1 == [infohash |-> dl.infohash, id |-> dl.id]
        new == [id |-> FreshId(ents), infohash |-> Lower(dl.infohash), profile |-> profile]
        hits == {i \in DOMAIN ents : /\ Lower(ents[i].infohash) = Lower(dl.infohash)
                                     /\ ents[i].profile = profile}
        ents1 == IF hits # {}
                 THEN [ents EXCEPT ![MinOf(hits)] = [new EXCEPT !.id = ents[MinOf(hits)].id]]
                 ELSE Append(ents, new)
    IN IF file = "ok"
       THEN EnforceVersionRetention(ents1, act1, strs, k, <<>>)
       ELSE [entries |-> ents, active |-> act1]

\* match_file_to_item for a Movie: a file parsed as a movie is attached
MatchFileToItem(st, strs, file, dl, svc, k, profile) ==
    IF file \in {"ok", "nourl"}
    THEN LET u == UpdateAttributes(st.entries, st.active, strs, file, dl, svc, k, profile)
         IN [entries |-> u.entries, active |-> u.active, found |-> TRUE]
    ELSE st

\* update_item_attributes: the loop over the container's files
RECURSIVE UpdateItemAttributes(_, _, _, _, _, _, _)
UpdateItemAttributes(st, strs, files, dl, svc, k, profile) ==
    IF files = <<>> THEN st
    ELSE UpdateItemAttributes(MatchFileToItem(st, strs, Head(files), dl, svc, k, profile),
                              strs, Tail(files), dl, svc, k, profile)

\* whether update_item_attributes returns True on these files
Found(files) == \E i \in DOMAIN files : files[i] \in {"ok", "nourl"}

\* ------------------------------------------------- provider answers
\* what get_instant_availability + validate_stream_on_service can hand back for
\* a stream on a service: a container with or without a torrent_id
Containers(svc, key) == [tid : {NoTid, <<svc, key>>}, files : FileLists]

\* a container of the pre-validation: its size is read at once, its file list
\* when file matching first walks it
Probes(svc, key) == [tid : {NoTid, <<svc, key>>}, files : {<<>>}]

\* download_cached_stream_on_service: without container.torrent_id the local
\* torrent_id is unbound and the call raises; otherwise the provider call
\* (select_files / get_torrent_info) returns, or raises either exception
DownloadOutcomes(c) == IF c.tid = NoTid THEN {"err"} ELSE {"ok", "cb", "err"}

Simple(kind, svc, drop) ==
    [kind |-> kind, svc |-> svc, dl |-> dlResult, drop |-> drop, files |-> <<>>]

\* lines 272-276 / 292-294 and 297-328: download with container c on svc, then
\* file matching
AfterDownload(s, svc, c, drop, memo) ==
    {[kind |-> IF d = "ok" THEN (IF Found(c.files) THEN "success" ELSE "nomatch") ELSE d,
      svc |-> svc,
      dl |-> IF d = "ok" THEN [id |-> c.tid, infohash |-> s.infohash, set |-> TRUE]
             ELSE dlResult,
      drop |-> drop,
      files |-> IF d = "ok" /\ (Found(c.files) \/ memo) THEN c.files ELSE <<>>] :
        d \in DownloadOutcomes(c)}

\* lines 261-270 (and 286-291 on re-validation): validate on svc, then download
ValidateThenDownload(s, svc, drop) ==
    {Simple(kd, svc, drop) : kd \in {"cb", "err", "none"}}
    \cup UNION {AfterDownload(s, svc, c, drop, FALSE) : c \in Containers(svc, Lower(s.infohash))}

\* one iteration of "for service in available_services" for stream s
AttemptResults(s, svc) ==
    LET key == Lower(s.infohash)
    IN IF key \in DOMAIN validated
       THEN LET v == validated[key]
                fs == IF v.c.files = <<>> THEN FileLists ELSE {v.c.files}
            IN {r \in UNION {AfterDownload(s, v.svc, [v.c EXCEPT !.files = f], FALSE, TRUE) : f \in fs} :
                     r.kind \in {"success", "nomatch"}}
               \cup ValidateThenDownload(s, v.svc, TRUE)
       ELSE ValidateThenDownload(s, svc, FALSE)

\* a handler that logs the open circuit breaker and records nothing
RecordCooldownForgotten(cd, svc, t) == cd

\* self._service_cooldowns[service.key] = datetime.now() + cooldown_duration
RecordCooldown(cd, svc, t) ==
    [k \in DOMAIN cd \cup {svc} |-> IF k = svc THEN t + CooldownSecs ELSE cd[k]]

\* available_services
AvailableServices(set, cd, t) ==
    SelectSeq(InitializedServices(set), LAMBDA k : k \notin DOMAIN cd \/ cd[k] <= t)

\* whether the end of a stream's provider loop blacklists the stream
ShouldBlacklist(failed, hit, nInit) == failed /\ ~(hit /\ nInit = 1)

\* stream_failed_on_all_services after a CircuitBreakerOpen
FailedAfterCB(failed, nInit) == IF nInit = 1 THEN FALSE ELSE failed

\* item.blacklist_stream(stream)
BlacklistStream(strs, s) == SelectSeq(strs, LAMBDA x : x # s)

\* desired_hashes / desired_streams (lines 106-115)
RECURSIVE DesiredStreams(_, _, _)
DesiredStreams(acc, strs, k) ==
    IF strs = <<>> THEN acc
    ELSE IF Lower(Head(strs).infohash) \in {Lower(x.infohash) : x \in Range(acc)}
         THEN DesiredStreams(acc, Tail(strs), k)
         ELSE LET a2 == Append(acc, Head(strs))
              IN IF Len(a2) >= k THEN a2 ELSE DesiredStreams(a2, Tail(strs), k)

\* existing_infohashes left empty: the entries are not consulted
ExistingInfohashesNone(ents) == {}

\* existing_infohashes
ExistingInfohashes(ents) ==
    {Lower(e.infohash) : e \in {x \in Range(ents) : x.infohash # NoHash}}

\* keep_versions = max(keep_versions or 1, len(item.streams) or 1)
KeepVersions(cfg, strs) ==
    LET a == IF cfg = 0 THEN 1 ELSE cfg
        b == IF Len(strs) = 0 THEN 1 ELSE Len(strs)
    IN IF a >= b THEN a ELSE b

\* validated_candidates.sort(key=...): stable; .median is the candidate's rank
\* under the sort key (season match, single season, median file size), larger first
RECURSIVE InsertCand(_, _)
InsertCand(sorted, c) ==
    IF sorted = <<>> THEN <<c>>
    ELSE IF c.median > Head(sorted).median THEN <<c>> \o sorted
         ELSE <<Head(sorted)>> \o InsertCand(Tail(sorted), c)

RECURSIVE SortCands(_)
SortCands(cs) ==
    IF cs = <<>> THEN <<>>
    ELSE InsertCand(SortCands(SubSeq(cs, 1, Len(cs) - 1)), cs[Len(cs)])

FirstN(q, n) == SubSeq(q, 1, IF Len(q) < n THEN Len(q) ELSE n)
Drop(q, n) == SubSeq(q, n + 1, Len(q))


\* ------------------------------------------------------------- the pass
PlainItem == [kind |-> "item", at |-> 0]
Retry(t) == [kind |-> "retry", at |-> t]

NInit == Len(InitializedServices(initSet))

PassInit ==
    /\ avail = <<>> /\ keep = 0 /\ desired = <<>> /\ todo = <<>> /\ existing = {}
    /\ success = FALSE /\ hitCB = FALSE /\ tried = 0
    /\ validated = EmptyMap /\ unused = <<>> /\ probes = {} /\ pvLeft = <<>> /\ pvDone = <<>>
    /\ svcIdx = 0 /\ failedAll = FALSE /\ streamHitCB = FALSE
    /\ dlResult = NoResult /\ yields = <<>> /\ raised = FALSE
    /\ deletes = {} /\ promoted = {} /\ realFail = FALSE /\ blCbOnly = {}
    /\ treated = "none"

\* the locals of a pass that has not reached the stream loop
LocalsReset ==
    /\ avail' = <<>> /\ keep' = 0 /\ desired' = <<>> /\ todo' = <<>> /\ existing' = {}
    /\ success' = FALSE /\ hitCB' = FALSE /\ tried' = 0
    /\ validated' = EmptyMap /\ unused' = <<>> /\ probes' = {} /\ pvLeft' = <<>> /\ pvDone' = <<>>
    /\ svcIdx' = 0 /\ failedAll' = FALSE /\ streamHitCB' = FALSE
    /\ dlResult' = NoResult
    /\ deletes' = {} /\ promoted' = {} /\ realFail' = FALSE /\ blCbOnly' = {}

Init ==
    /\ initSet \in {{AllServices[i] : i \in 1..n} : n \in 1..MaxProviders}
    /\ cfgKeep \in 1..MaxKeep
    /\ streams \in {q \in SeqsUpTo(StreamValues, MaxStreams) :
                      /\ q # <<>>
                      /\ \A i, j \in DOMAIN q : i # j => q[i].infohash # q[j].infohash}
    /\ blacklisted = {}
    /\ entries = <<>>
    /\ active = NoActive
    /\ cooldowns = EmptyMap
    /\ cbRetries = {}
    /\ now = 0
    /\ pc = "idle"
    /\ PassInit
    /\ WlIdle /\ posts = <<>> /\ EvIdle /\ W2pIdle /\ PrIdle /\ FsIdle /\ ExtIdle

\* where the stream loop stands when it (re-)enters its head with these
\* streams ahead: lines 232-235
LoopHead(td, ex, k) == IF td = <<>> \/ Cardinality(ex) >= k THEN "cleanup" ELSE "svc"

\* Downloader.run up to the stream loop or the pre-validation (lines 64-152)
StartPass ==
    /\ pc \in {"idle", "done"}
    /\ UNCHANGED otherVars
    /\ LET av == AvailableServices(initSet, cooldowns, now)
       IN IF av = <<>>
          THEN /\ LocalsReset
               /\ IF DOMAIN cooldowns = {}
                  THEN raised' = TRUE /\ yields' = <<>>
                  ELSE /\ raised' = FALSE
                       /\ yields' = <<Retry(MinOf({cooldowns[x] : x \in DOMAIN cooldowns}))>>
               /\ treated' = "cooldown"
               /\ pc' = "done"
               /\ UNCHANGED <<cfgVars, itemVars, svcVars, now, extVars>>
          ELSE LET k == KeepVersions(cfgKeep, streams)
                   ds == DesiredStreams(<<>>, streams, k)
                   dh == MapSeq(ds, LAMBDA s : Lower(s.infohash))
               IN \E r \in {EnforceVersionRetention(entries, active, streams, k, dh)} :
                  \E ex \in {ExistingInfohashes(r.entries)} :
                  \E td \in {SelectSeq(ds, LAMBDA s : Lower(s.infohash) \notin ex)} :
                  LET pre == td # <<>> /\ td[1].profile = "hq" /\ Len(td) > 1
                  IN
                  /\ avail' = av /\ keep' = k /\ desired' = dh
                  /\ entries' = r.entries /\ active' = r.active
                  /\ existing' = ex /\ todo' = td
                  /\ success' = (td = <<>> /\ Cardinality(ex) >= k)
                  /\ hitCB' = FALSE /\ tried' = 0
                  /\ validated' = EmptyMap /\ unused' = <<>> /\ probes' = {}
                  /\ pvLeft' = IF pre THEN FirstN(td, MaxCandidates) ELSE <<>>
                  /\ pvDone' = <<>>
                  /\ svcIdx' = 1 /\ failedAll' = TRUE /\ streamHitCB' = FALSE
                  /\ dlResult' = NoResult /\ yields' = <<>> /\ raised' = FALSE
                  /\ deletes' = {} /\ promoted' = {} /\ realFail' = FALSE /\ blCbOnly' = {}
                  /\ treated' = "none"
                  /\ pc' = IF pre THEN "preval" ELSE LoopHead(td, ex, k)
                  /\ UNCHANGED <<cfgVars, streams, blacklisted, svcVars, now, extVars>>

\* One candidate of the pre-validation loop (lines 168-205): the services are
\* probed in order until one returns a container with a size; n = 0 when none
\* does.  After the last candidate the list is re-ranked (lines 209-230).
PrevalidateCandidate ==
    /\ pc = "preval"
    /\ pvLeft # <<>>
    /\ UNCHANGED otherVars
    /\ LET s == Head(pvLeft)
           key == Lower(s.infohash)
       IN \E n \in 0..Len(avail) :
          \E c \in IF n = 0 THEN {[tid |-> NoTid, files |-> <<>>]} ELSE Probes(avail[n], key) :
          \E m \in IF n = 0 THEN {1} ELSE 1..MaxMedian :
             LET done == IF n = 0 THEN pvDone
                         ELSE Append(pvDone, [stream |-> s, c |-> c, svc |-> avail[n],
                                              median |-> m])
                 sorted == SortCands(done)
                 last == Len(pvLeft) = 1
                 nCand == IF Len(todo) < MaxCandidates THEN Len(todo) ELSE MaxCandidates
                 td == IF last /\ done # <<>>
                       THEN MapSeq(sorted, LAMBDA x : x.stream) \o Drop(todo, nCand)
                       ELSE todo
             IN /\ pvLeft' = Tail(pvLeft)
                /\ pvDone' = IF last THEN <<>> ELSE done
                /\ todo' = td
                /\ validated' =
                     IF last
                     THEN [h \in {Lower(x.stream.infohash) : x \in Range(sorted)} |->
                             LET x == CHOOSE y \in Range(sorted) : Lower(y.stream.infohash) = h
                             IN [c |-> x.c, svc |-> x.svc]]
                     ELSE validated
                /\ unused' =
                     IF last
                     THEN MapSeq(SelectSeq(sorted, LAMBDA x : x.c.tid # NoTid),
                                 LAMBDA x : [svc |-> x.svc, tid |-> x.c.tid,
                                             key |-> Lower(x.stream.infohash)])
                     ELSE unused
                /\ probes' =
                     IF last
                     THEN {[svc |-> x.svc, tid |-> x.c.tid, key |-> Lower(x.stream.infohash)] :
                             x \in {y \in Range(sorted) : y.c.tid # NoTid}}
                     ELSE probes
                /\ pc' = IF last THEN LoopHead(td, existing, keep) ELSE "preval"
    /\ UNCHANGED <<cfgVars, itemVars, svcVars, now, avail, keep, desired, existing, success,
                   hitCB, tried, svcIdx, failedAll, streamHitCB, dlResult, yields, raised,
                   deletes, promoted, realFail, blCbOnly, treated, extVars>>

DropKey(m, key) == [h \in DOMAIN m \ {key} |-> m[h]]

\* the locals after one iteration of the provider loop that ended as r for
\* stream s (lines 297-362)
AfterAttempt(s, r) ==
    LET key == Lower(s.infohash)
        ok == r.kind = "success"
        u == IF ok
             THEN UpdateItemAttributes([entries |-> entries, active |-> active,
                                        found |-> FALSE],
                                       streams, r.files, r.dl, r.svc, keep, s.profile)
             ELSE [entries |-> entries, active |-> active, found |-> FALSE]
        cb == r.kind = "cb"
        del == r.kind \in {"err", "nomatch"} /\ r.dl.set /\ r.dl.id # NoTid
    IN [entries |-> u.entries,
        active |-> u.active,
        success |-> success \/ ok,
        failedAll |-> IF ok THEN FALSE
                      ELSE IF cb THEN FailedAfterCB(failedAll, NInit) ELSE failedAll,
        existing |-> IF ok THEN existing \cup {key} ELSE existing,
        unused |-> IF ok THEN SelectSeq(unused, LAMBDA x : x.key # key) ELSE unused,
        promoted |-> IF ok THEN promoted \cup {<<r.svc, r.dl.id>>} ELSE promoted,
        cooldowns |-> IF cb THEN RecordCooldown(cooldowns, r.svc, now) ELSE cooldowns,
        streamHitCB |-> streamHitCB \/ cb,
        hitCB |-> hitCB \/ cb,
        realFail |-> realFail \/ r.kind \in {"err", "nomatch", "none"},
        deletes |-> IF del THEN deletes \cup {[svc |-> r.svc, tid |-> r.dl.id]} ELSE deletes,
        validated |-> IF r.drop THEN DropKey(validated, key)
                      ELSE IF key \in DOMAIN validated /\ r.kind = "nomatch"
                           THEN [validated EXCEPT ![key].c.files = r.files]
                           ELSE validated,
        brk |-> ok]

\* One iteration of "for service in available_services" (lines 241-362); the
\* iteration that ends the provider loop goes on through the end of the
\* stream's turn (lines 364-382) to the head of the stream loop (232-235).
Attempt ==
    /\ pc = "svc"
    /\ UNCHANGED otherVars
    /\ LET s == Head(todo)
       IN \E r \in AttemptResults(s, avail[svcIdx]) :
            \E a \in {AfterAttempt(s, r)} :
            LET over == a.brk \/ svcIdx = Len(avail)
                bl == over /\ ShouldBlacklist(a.failedAll, a.streamHitCB, NInit)
            IN /\ entries' = a.entries /\ active' = a.active
               /\ success' = a.success /\ existing' = a.existing
               /\ unused' = a.unused /\ promoted' = a.promoted
               /\ cooldowns' = a.cooldowns /\ hitCB' = a.hitCB
               /\ deletes' = a.deletes /\ validated' = a.validated
               /\ dlResult' = r.dl
               /\ blacklisted' = IF bl THEN blacklisted \cup {s} ELSE blacklisted
               /\ streams' = IF bl THEN BlacklistStream(streams, s) ELSE streams
               /\ blCbOnly' = IF bl /\ a.streamHitCB /\ ~a.realFail
                              THEN blCbOnly \cup {s} ELSE blCbOnly
               /\ IF over
                  THEN /\ tried' = tried + 1
                       /\ yields' = IF tried + 1 >= YieldEvery
                                    THEN Append(yields, PlainItem) ELSE yields
                       /\ todo' = Tail(todo)
                       /\ pc' = LoopHead(Tail(todo), a.existing, keep)
                       /\ svcIdx' = 1 /\ failedAll' = TRUE
                       /\ streamHitCB' = FALSE /\ realFail' = FALSE
                  ELSE /\ svcIdx' = svcIdx + 1
                       /\ failedAll' = a.failedAll
                       /\ streamHitCB' = a.streamHitCB /\ realFail' = a.realFail
                       /\ UNCHANGED <<tried, yields, todo, pc, extVars>>
    /\ UNCHANGED <<cfgVars, cbRetries, now, avail, keep, desired, probes, pvLeft, pvDone,
                   raised, treated, extVars>>

\* a last yield that never reschedules
FinalYieldPlain(ok, hit, nInit, cd) == PlainItem

\* the value the pass yields last (lines 403-422)
FinalYield(ok, hit, nInit, cd) ==
    IF ~ok /\ hit /\ nInit = 1
    THEN Retry(MinOf({cd[x] : x \in DOMAIN cd}))
    ELSE PlainItem

\* The rest of the pass once the stream loop is over: probe cleanup, the final
\* retention and the last yield (lines 384-422).  The generator's locals die
\* with it; what the pass decided stays readable until the next pass starts.
EndPass ==
    /\ pc = "cleanup"
    /\ UNCHANGED otherVars
    /\ deletes' = deletes \cup {[svc |-> unused[i].svc, tid |-> unused[i].tid] :
                                 i \in DOMAIN unused}
    /\ \E r \in {EnforceVersionRetention(entries, active, streams, keep, desired)} :
          entries' = r.entries /\ active' = r.active
    /\ IF ~success /\ hitCB /\ NInit = 1 /\ DOMAIN cooldowns = {}
       THEN raised' = TRUE /\ yields' = yields
       ELSE raised' = FALSE
            /\ yields' = Append(yields, FinalYield(success, hitCB, NInit, cooldowns))
    /\ IF success
       THEN /\ cbRetries' = cbRetries \ {"item"}
            /\ cooldowns' = EmptyMap
            /\ treated' = "success"
       ELSE /\ treated' = "failure"
            /\ UNCHANGED svcVars
    /\ pc' = "done"
    /\ validated' = EmptyMap /\ dlResult' = NoResult /\ svcIdx' = 0
    /\ failedAll' = FALSE /\ streamHitCB' = FALSE /\ realFail' = FALSE
    /\ pvLeft' = <<>> /\ pvDone' = <<>> /\ todo' = <<>>
    /\ avail' = <<>> /\ existing' = {} /\ tried' = 0 /\ unused' = <<>>
    /\ UNCHANGED <<cfgVars, streams, blacklisted, now, keep, desired, success, hitCB,
                   probes, promoted, blCbOnly, extVars>>

\* time passes between two passes
Tick ==
    /\ pc = "done"
    /\ now + TickSecs <= MaxNow
    /\ now' = now + TickSecs
    /\ pc' = "idle"
    /\ LocalsReset
    /\ yields' = <<>> /\ raised' = FALSE /\ treated' = "none"
    /\ UNCHANGED <<cfgVars, itemVars, svcVars, otherVars>>

Next == StartPass \/ PrevalidateCandidate \/ Attempt \/ EndPass \/ Tick

Spec == Init /\ [][Next]_vars


\* ------------------------------------------- retention on arbitrary items
\* _enforce_version_retention applied twice to an item whose entries, streams
\* and active_stream are arbitrary (entries are distinct objects: ids differ)
EntryLists ==
    {q \in SeqsUpTo([id : 1..MaxEntries, infohash : {"aa", "bb", "cc", NoHash}, profile : Profiles],
                    MaxEntries) : \A i \in DOMAIN q : q[i].id = i}

InitRet ==
    /\ initSet = {AllServices[1]} /\ cfgKeep = 1
    /\ streams \in {<<>>, <<[infohash |-> "bb", profile |-> "hq"],
                           [infohash |-> "Aa", profile |-> NoProfile]>>,
                     <<[infohash |-> "bb", profile |-> "hq"],
                       [infohash |-> "Aa", profile |-> NoProfile],
                       [infohash |-> "cc", profile |-> NoProfile]>>}
    /\ blacklisted = {}
    /\ entries \in EntryLists
    /\ active \in {NoActive, [infohash |-> "bb", id |-> <<AllServices[1], "bb">>]}
    /\ cooldowns = EmptyMap /\ cbRetries = {} /\ now = 0
    /\ pc = "ret0"
    /\ avail = <<>>
    /\ keep \in 0..MaxKeepArg
    /\ desired \in {<<>>, <<"Aa">>, <<"bb">>, <<"aa", "bb">>, <<"bb", "aa">>}
    /\ todo = <<>> /\ existing = {}
    /\ success = FALSE /\ hitCB = FALSE /\ tried = 0
    /\ validated = EmptyMap /\ unused = <<>> /\ probes = {} /\ pvLeft = <<>> /\ pvDone = <<>>
    /\ svcIdx = 0 /\ failedAll = FALSE /\ streamHitCB = FALSE
    /\ dlResult = NoResult /\ yields = <<>> /\ raised = FALSE
    /\ deletes = {} /\ promoted = {} /\ realFail = FALSE /\ blCbOnly = {}
    /\ treated = "none"
    /\ WlIdle /\ posts = <<>> /\ EvIdle /\ W2pIdle /\ PrIdle /\ FsIdle /\ ExtIdle

Retained == EnforceVersionRetention(entries, active, streams, keep, desired)

RetentionOnce ==
    /\ pc = "ret0"
    /\ entries' = Retained.entries /\ active' = Retained.active
    /\ pc' = "ret1"
    /\ UNCHANGED <<cfgVars, streams, blacklisted, svcVars, now, passVars, otherVars>>

RetentionAgain ==
    /\ pc = "ret1"
    /\ entries' = Retained.entries /\ active' = Retained.active
    /\ pc' = "ret2"
    /\ UNCHANGED <<cfgVars, streams, blacklisted, svcVars, now, passVars, otherVars>>

NextRet == RetentionOnce \/ RetentionAgain

SpecRet == InitRet /\ [][NextRet]_vars

\* ------------------------------------------------------ PlexWatchlist.run
\* the downloader at rest
DlIdle ==
    /\ initSet = {AllServices[1]} /\ cfgKeep = 1
    /\ streams = <<>> /\ blacklisted = {} /\ entries = <<>> /\ active = NoActive
    /\ cooldowns = EmptyMap /\ cbRetries = {} /\ now = 0
    /\ PassInit

\* get_items_from_watchlist(): the imdb ids on the watchlist; an item's title
\* is written as its id
Watchlist == <<"tt1", "tt2">>
WlIds == Range(Watchlist)

\* no item in the database (get_item_by_external_id returns None)
NoItem == [exists |-> FALSE, completed |-> FALSE, releases |-> FALSE, count |-> 0,
           recent |-> FALSE]

\* the "continue" branches of the items_to_harvest loop (lines 384-436)
SkipHarvest(r) ==
    /\ r.exists
    /\ \/ r.count >= MaxAttempts /\ ~r.releases
       \/ r.completed /\ r.releases
       \/ r.completed /\ ~r.releases /\ r.recent
       \/ r.releases /\ ~r.completed

ItemsToHarvest(db) == SelectSeq(Watchlist, LAMBDA i : ~SkipHarvest(db[i]))

\* _build_w2p_payload([item]): one payload element per item with an identifier
BuildW2pPayload(items) == items

\* entries of a harvester response to the request for item i: the item's own id
\* or another one, its title or another one, with or without releases (after
\* the RD-library fallback of lines 540-573)
RespEntries(i) == [id : {i, "x"}, title : {i, "?"}, rel : BOOLEAN]

\* what _call_w2p can get back: a failure (timeout, connection error, HTTP
\* error, any exception), or a response with a list of items
Responses(i) ==
    {[ok |-> FALSE, items |-> <<>>]}
    \cup {[ok |-> TRUE, items |-> q] :
            q \in {s \in SeqsUpTo(RespEntries(i), MaxRespItems) :
                     \A a, b \in DOMAIN s : a # b => s[a].id # s[b].id}}

\* dict.update: releases_map[str(ident)] = entry, w2p_results.update(...)
RECURSIVE MergeResults(_, _)
MergeResults(res, es) ==
    IF es = <<>> THEN res
    ELSE LET e == Head(es)
             hit == {k \in DOMAIN res : res[k].id = e.id}
         IN MergeResults(IF hit = {} THEN Append(res, e)
                         ELSE [res EXCEPT ![CHOOSE k \in hit : TRUE] = e],
                         Tail(es))

\* the watchlist item a result is matched to: by id, else by title
\* (lines 575-589); "" when there is none
MatchWatchlistItem(e, harvest) ==
    IF e.id \in Range(harvest) THEN e.id
    ELSE LET byTitle == SelectSeq(harvest, LAMBDA i : i = e.title)
         IN IF byTitle # <<>> THEN byTitle[1] ELSE ""

\* lines 591-747 for one entry of w2p_results
ProcessResult(db, e, harvest) ==
    LET d == MatchWatchlistItem(e, harvest)
    IN IF d = "" THEN db
       ELSE LET r == db[d]
            IN IF r.exists
               THEN [db EXCEPT ![d] =
                       [r EXCEPT !.releases = e.rel,
                                 !.count = IF e.rel THEN 0 ELSE r.count + 1,
                                 !.completed = r.completed /\ ~e.rel]]
               ELSE [db EXCEPT ![d] =
                       [exists |-> TRUE, completed |-> FALSE, releases |-> e.rel,
                        count |-> IF e.rel THEN 0 ELSE 1, recent |-> FALSE]]

RECURSIVE ProcessResults(_, _, _)
ProcessResults(db, res, harvest) ==
    IF res = <<>> THEN db
    ELSE ProcessResults(ProcessResult(db, Head(res), harvest), Tail(res), harvest)

InitWl ==
    /\ DlIdle
    /\ pc = "wlIdle"
    /\ wlDb = [i \in WlIds |-> NoItem]
    /\ wlBefore = wlDb
    /\ wlHarvest = <<>> /\ wlLeft = <<>> /\ wlResults = <<>> /\ wlFailed = {}
    /\ posts = <<>>
    /\ EvIdle /\ W2pIdle /\ PrIdle /\ FsIdle /\ ExtIdle

\* run up to the harvest loop (lines 367-476)
WlStart ==
    /\ pc \in {"wlIdle", "wlDone"}
    /\ LET h == ItemsToHarvest(wlDb)
       IN /\ wlHarvest' = h /\ wlLeft' = h
          /\ pc' = IF h = <<>> THEN "wlDone" ELSE "wlCall"
    /\ wlBefore' = wlDb
    /\ wlResults' = <<>> /\ wlFailed' = {} /\ posts' = <<>>
    /\ UNCHANGED <<dlVars, wlDb, evVars, w2pVars, prVars, fsVars, extVars>>

\* one turn of "for idx, item in enumerate(items_to_harvest, 1)" (lines 478-515)
WlCall ==
    /\ pc = "wlCall"
    /\ LET i == Head(wlLeft)
       IN /\ wlDb' = IF wlDb[i].exists THEN [wlDb EXCEPT ![i].recent = TRUE] ELSE wlDb
          /\ posts' = Append(posts, [from |-> "watchlist", items |-> BuildW2pPayload(<<i>>)])
          /\ \E resp \in Responses(i) :
                /\ wlResults' = MergeResults(wlResults, resp.items)
                /\ wlFailed' = IF resp.ok THEN wlFailed ELSE wlFailed \cup {i}
          /\ wlLeft' = Tail(wlLeft)
          /\ pc' = IF Tail(wlLeft) = <<>> THEN "wlMatch" ELSE "wlCall"
    /\ UNCHANGED <<dlVars, wlBefore, wlHarvest, evVars, w2pVars, prVars, fsVars, extVars>>

\* "for w2p_entry in w2p_results.values()" to the end of run (lines 519-814)
WlMatch ==
    /\ pc = "wlMatch"
    /\ wlDb' = ProcessResults(wlDb, wlResults, wlHarvest)
    /\ pc' = "wlDone"
    /\ UNCHANGED <<dlVars, wlBefore, wlHarvest, wlLeft, wlResults, wlFailed, posts,
                   evVars, w2pVars, prVars, fsVars, extVars>>

\* what a finished cycle leaves behind is gone once anything else happens
WlForget ==
    /\ pc' = "wlIdle"
    /\ wlBefore' = wlDb'
    /\ wlHarvest' = <<>> /\ wlLeft' = <<>> /\ wlResults' = <<>> /\ wlFailed' = {}
    /\ posts' = <<>>

\* between two cycles the rest of the program brings an item to Completed
WlComplete ==
    /\ pc \in {"wlIdle", "wlDone"}
    /\ \E i \in WlIds :
          /\ wlDb[i].exists /\ ~wlDb[i].completed
          /\ wlDb' = [wlDb EXCEPT ![i].completed = TRUE]
    /\ WlForget
    /\ UNCHANGED <<dlVars, evVars, w2pVars, prVars, fsVars, extVars>>

\* 24 hours go by: no w2p_last_attempt is recent any more
WlDayPasses ==
    /\ pc \in {"wlIdle", "wlDone"}
    /\ \E i \in WlIds : wlDb[i].recent
    /\ wlDb' = [i \in WlIds |-> [wlDb[i] EXCEPT !.recent = FALSE]]
    /\ WlForget
    /\ UNCHANGED <<dlVars, evVars, w2pVars, prVars, fsVars, extVars>>

NextWl == WlStart \/ WlCall \/ WlMatch \/ WlComplete \/ WlDayPasses

SpecWl == InitWl /\ [][NextWl]_vars

\* ------------------------------------------- EpisodeValidationService.run
\* one Season of a Show that has a tmdb id or an imdb id
MaxOf(S) == CHOOSE x \in S : \A y \in S : x >= y

\* range(a, b + 1) as a list
RECURSIVE Interval(_, _)
Interval(a, b) == IF a > b THEN <<>> ELSE <<a>> \o Interval(a + 1, b)

\* _get_missing_episodes(season): the gaps below the highest episode held
GetMissingEpisodes(have) ==
    IF have = {} THEN <<>>
    ELSE SelectSeq(Interval(1, MaxOf(have)), LAMBDA n : n \notin have)

\* missing_episodes of run (lines 268-277): the gaps, then the episodes after the
\* highest one held up to the expected count
MissingEpisodes(have, expected) ==
    LET gaps == GetMissingEpisodes(have)
        top == IF have = {} THEN 0 ELSE MaxOf(have)
    IN gaps \o SelectSeq(Interval(top + 1, expected), LAMBDA n : n \notin Range(gaps))

\* items_payload of _call_w2p_for_episodes (lines 98-108): one element per
\* missing episode
EpisodesPayload(missing) == missing

InitEv ==
    /\ DlIdle
    /\ pc = "evIdle"
    /\ evHave \in SUBSET (1..MaxEp)
    /\ evExpected \in 0..(MaxEp + 1)
    /\ evEnabled \in BOOLEAN
    /\ evMissing = <<>> /\ evReleases = {} /\ evQueued = <<>>
    /\ posts = <<>>
    /\ WlIdle /\ W2pIdle /\ PrIdle /\ FsIdle /\ ExtIdle

\* run for the season up to the harvester call (lines 255-283)
EvCheck ==
    /\ pc = "evIdle"
    /\ LET short == evExpected # 0 /\ Cardinality(evHave) < evExpected
           m == IF short THEN MissingEpisodes(evHave, evExpected) ELSE <<>>
       IN /\ evMissing' = m
          /\ pc' = IF m = <<>> THEN "evDone" ELSE "evCall"
    /\ UNCHANGED <<dlVars, wlVars, posts, evHave, evExpected, evEnabled, evReleases,
                   evQueued, w2pVars, prVars, fsVars, extVars>>

\* what _queue_missing_episodes does, as a list of steps; attempts is the
\* w2p_attempt_count the step leaves in the episode's aliases (it writes none)
EvStep(op, n, releases) ==
    [op |-> op, episode |-> n, releases |-> releases, attempts |-> 0]

\* _queue_missing_episodes that queues an episode only when it has releases
RECURSIVE QueueOnlyWithReleases(_, _, _)
QueueOnlyWithReleases(missing, have, releases) ==
    IF missing = <<>> THEN <<>>
    ELSE LET n == Head(missing)
         IN <<EvStep("create", n, n \in releases)>>
            \o (IF n \in releases THEN <<EvStep("enqueue", n, TRUE)>> ELSE <<>>)
            \o QueueOnlyWithReleases(Tail(missing), have, releases)

\* _queue_missing_episodes (lines 157-220): an episode found in season.episodes
\* is updated (releases stored, scraped_at cleared, state Indexed) when there
\* are releases, and queued; any other is created with parent = season and
\* aliases holding the releases or nothing, committed, and queued
RECURSIVE QueueMissingEpisodes(_, _, _)
QueueMissingEpisodes(missing, have, releases) ==
    IF missing = <<>> THEN <<>>
    ELSE LET n == Head(missing)
         IN (IF n \in have
             THEN (IF n \in releases THEN <<EvStep("update", n, TRUE)>> ELSE <<>>)
             ELSE <<EvStep("create", n, n \in releases)>>)
            \o <<EvStep("enqueue", n, n \in releases)>>
            \o QueueMissingEpisodes(Tail(missing), have, releases)

\* the episodes created by the run
CreatedEpisodes(steps) == {steps[i].episode : i \in {j \in DOMAIN steps : steps[j].op = "create"}}

\* _call_w2p_for_episodes and _queue_missing_episodes (lines 87-218, 284-290):
\* one POST when the harvester is enabled; it fails, or answers with releases
\* for some episode numbers; every missing episode is queued either way
EvCallW2p ==
    /\ pc = "evCall"
    /\ \E rels \in (IF evEnabled THEN SUBSET Range(evMissing) ELSE {{}}) :
          /\ evReleases' = rels
          /\ evQueued' = QueueMissingEpisodes(evMissing, evHave, rels)
    /\ posts' = IF evEnabled
                THEN Append(posts, [from |-> "validator",
                                    items |-> EpisodesPayload(evMissing)])
                ELSE posts
    /\ pc' = "evDone"
    /\ UNCHANGED <<dlVars, wlVars, evHave, evExpected, evEnabled, evMissing,
                   w2pVars, prVars, fsVars, extVars>>

\* the season is validated again: the episodes created by the last run are
\* rows with parent = season; whether the season handed to the next run lists
\* them depends on how it is loaded
EvAgain ==
    /\ pc = "evDone"
    /\ Len(posts) < MaxValidations
    /\ evHave' \in {evHave, evHave \cup CreatedEpisodes(evQueued)}
    /\ evMissing' = <<>> /\ evReleases' = {} /\ evQueued' = <<>>
    /\ pc' = "evIdle"
    /\ UNCHANGED <<dlVars, wlVars, posts, evExpected, evEnabled, w2pVars, prVars, fsVars, extVars>>

NextEv == EvCheck \/ EvCallW2p \/ EvAgain

SpecEv == InitEv /\ [][NextEv]_vars

\* ------------------------------------------- Watchlist2PlexScraper.run
\* A title is a sequence of characters: a letter, a space, a line feed and a
\* non-ASCII character (an emoji).  An infohash string is kept as its length
\* and the class of its characters; a magnet as the length and class of the
\* run of hexadecimal characters that follows "btih:" (0: no magnet or no run).
TitleChars == {"a", " ", "LF", "emoji"}
IsSpace(c) == c \in {" ", "LF"}
IsAscii(c) == c # "emoji"

NoInfohash == [len |-> 0, case |-> "lower"]
ValidInfohash == [len |-> HashLen, case |-> "lower"]
InfohashValues == {NoInfohash} \cup [len : {HashLen - 1, HashLen}, case : {"lower", "upper", "other"}]
NoMagnet == [run |-> 0, case |-> "lower"]
MagnetValues ==
    {NoMagnet} \cup [run : {MinBtih - 1, MinBtih, HashLen, HashLen + 1}, case : {"lower", "upper"}]
DictTitle == [kind |-> "dict", chars |-> <<>>]
PlainTitle == [kind |-> "str", chars |-> <<"a">>]
TitleValues == [kind : {"str"}, chars : SeqsUpTo(TitleChars, MaxTitle)] \cup {DictTitle}
W2pReleases ==
    [infohash : InfohashValues, magnet : MagnetValues, title : {PlainTitle, DictTitle}]
    \cup [infohash : {ValidInfohash}, magnet : {NoMagnet}, title : TitleValues]

\* re.sub(r'[^\x00-\x7F]+', ' ', s): every run of non-ASCII becomes one space
RECURSIVE StripNonAscii(_)
StripNonAscii(s) ==
    IF s = <<>> THEN <<>>
    ELSE IF IsAscii(Head(s)) THEN <<Head(s)>> \o StripNonAscii(Tail(s))
    ELSE IF Len(s) > 1 /\ ~IsAscii(s[2]) THEN StripNonAscii(Tail(s))
    ELSE <<" ">> \o StripNonAscii(Tail(s))

\* re.sub(r'\s+', ' ', s): every run of whitespace becomes one space
RECURSIVE CollapseWhitespace(_)
CollapseWhitespace(s) ==
    IF s = <<>> THEN <<>>
    ELSE IF ~IsSpace(Head(s)) THEN <<Head(s)>> \o CollapseWhitespace(Tail(s))
    ELSE IF Len(s) > 1 /\ IsSpace(s[2]) THEN CollapseWhitespace(Tail(s))
    ELSE <<" ">> \o CollapseWhitespace(Tail(s))

\* str.strip()
RECURSIVE Strip(_)
Strip(s) ==
    IF s = <<>> THEN <<>>
    ELSE IF IsSpace(Head(s)) THEN Strip(Tail(s))
    ELSE IF IsSpace(s[Len(s)]) THEN Strip(SubSeq(s, 1, Len(s) - 1))
    ELSE s

\* s.split('\n')[0]
RECURSIVE FirstLine(_)
FirstLine(s) ==
    IF s = <<>> \/ Head(s) = "LF" THEN <<>>
    ELSE <<Head(s)>> \o FirstLine(Tail(s))

\* lines 60-64
CleanTitle(s) == Strip(FirstLine(Strip(CollapseWhitespace(StripNonAscii(s)))))

\* _extract_infohash: re.search(r"btih:([a-fA-F0-9]{32,40})", magnet)
ExtractInfohash(m) ==
    IF m.run >= MinBtih
    THEN [len |-> IF m.run > HashLen THEN HashLen ELSE m.run, case |-> m.case]
    ELSE NoInfohash

\* infohash.lower()
LowerInfohash(h) == [h EXCEPT !.case = IF @ = "upper" THEN "lower" ELSE @]

\* lines 47-49: the infohash field, else the one extracted from the magnet
ReleaseInfohash(r) ==
    IF r.infohash.len > 0 THEN r.infohash
    ELSE IF r.magnet.run > 0 THEN ExtractInfohash(r.magnet)
    ELSE NoInfohash

\* lines 55-72: the title stored for the release
ReleaseTitle(r) ==
    IF r.title.kind = "str" THEN CleanTitle(r.title.chars) ELSE <<"W2P Release ">>

\* releases[key] = title
PutRelease(releases, key, title) ==
    {e \in releases : e.key # key} \cup {[key |-> key, title |-> title]}

\* the loop of run over w2p_releases (lines 46-72)
RECURSIVE ScrapeReleases(_, _)
ScrapeReleases(releases, rest) ==
    IF rest = <<>> THEN releases
    ELSE LET r == Head(rest)
             ih == ReleaseInfohash(r)
         IN ScrapeReleases(IF ih.len = 0 THEN releases
                           ELSE PutRelease(releases, LowerInfohash(ih), ReleaseTitle(r)),
                           Tail(rest))

InitW2p ==
    /\ DlIdle
    /\ pc = "w2pIdle"
    /\ rel \in SeqsUpTo(W2pReleases, MaxRel)
    /\ scraped = {}
    /\ posts = <<>>
    /\ WlIdle /\ EvIdle /\ PrIdle /\ FsIdle /\ ExtIdle

\* Watchlist2PlexScraper.run(item) with item.aliases["w2p_releases"] = rel
W2pRun ==
    /\ pc = "w2pIdle"
    /\ scraped' = ScrapeReleases({}, rel)
    /\ pc' = "w2pDone"
    /\ UNCHANGED <<dlVars, wlVars, posts, evVars, rel, prVars, fsVars, extVars>>

NextW2p == W2pRun

SpecW2p == InitW2p /\ [][NextW2p]_vars

\* ------------------------------------------------ scrapers/shared.py
\* _parse_results in two parts: the filters a ranked torrent passes for an
\* item (the body of the loop over results) and the selection of the kept
\* streams from each profile's sorted torrents.
ItemTypes == {"movie", "show", "season", "episode"}
SeasonNumbers == 1..MaxSeasonNo
EpisodeNumbers == 1..MaxEpNo

\* country strings, character by character
NoCountry == <<>>
ItemCountries ==
    {NoCountry, <<"U", "S">>, <<"u", "s", "a">>, <<"U", "S", "A">>, <<"G", "B">>,
     <<"U", "K">>, <<"A", "U", "S">>, <<"A", "U">>}
TorrentCountries == {NoCountry, <<"U", "S">>, <<"U", "K">>, <<"A", "U">>, <<"G", "B">>}

\* str.upper()
UpperChar(c) == IF c = "u" THEN "U" ELSE IF c = "s" THEN "S" ELSE IF c = "a" THEN "A" ELSE c
Upper(s) == [i \in DOMAIN s |-> UpperChar(s[i])]

\* a in b for two strings
IsSubstring(a, b) ==
    \E i \in 0..(Len(b) - Len(a)) : SubSeq(b, i + 1, i + Len(a)) = a

\* _get_item_country
GetItemCountry(item) ==
    LET country == IF item.type \in {"season", "episode"}
                   THEN Upper(item.showCountry) ELSE Upper(item.country)
    IN IF country = <<"U", "S", "A">> THEN <<"U", "S">>
       ELSE IF country = <<"G", "B">> THEN <<"U", "K">>
       ELSE country

\* _check_item_year
CheckItemYearExact(item, data) == data.year = item.year
CheckItemYear(item, data) == data.year \in {item.year - 1, item.year, item.year + 1}

\* the Season checks without the minimum number of annotated episodes
ContextOkAnyEpisodeCount(item, data) ==
    item.type = "season" =>
        /\ item.number \in data.seasons
        /\ data.episodes # {} => \A e \in item.episodes : e \in data.episodes

\* lines 84-175: the checks that depend on the type of the item
ContextOk(item, data) ==
    CASE item.type = "movie" -> ~(data.episodes # {} \/ data.seasons # {})
      [] item.type = "show" ->
            /\ ~(data.episodes # {} /\ Cardinality(data.episodes) <= JunkEpisodes)
            /\ \A s \in item.seasons : s \in data.seasons
            /\ ~(/\ data.episodes # {} /\ data.seasons = {}
                 /\ Cardinality(item.seasons) = 1
                 /\ ~(\A e \in item.episodes : e \in data.episodes))
      [] item.type = "season" ->
            /\ ~(data.seasons # {} /\ item.number \notin data.seasons)
            /\ ~(data.episodes # {} /\ Cardinality(data.episodes) <= JunkEpisodes)
            /\ item.number \in data.seasons
            /\ ~(data.episodes # {} /\ ~(\A e \in item.episodes : e \in data.episodes))
      [] item.type = "episode" ->
            IF data.episodes # {}
            THEN item.number \in data.episodes \/ item.absolute \in data.episodes
            ELSE IF data.seasons # {} THEN item.parent \in data.seasons
            ELSE FALSE

\* lines 177-186
CountryOk(item, data) ==
    (data.country # NoCountry /\ ~item.anime)
        => ~(data.country # NoCountry /\ ~IsSubstring(data.country, GetItemCountry(item)))

\* lines 188-193; year 0: no year annotated
YearOk(item, data) == data.year # 0 => CheckItemYear(item, data)

\* lines 195-201
DubbedOk(item, data) == (item.anime /\ item.dubbedOnly) => data.dubbed

\* lines 75-209: whether the torrent is added to the profile's torrents;
\* a title RTN refuses raises and is skipped
TorrentAccepted(item, data) ==
    /\ ~data.garbage
    /\ ContextOk(item, data)
    /\ CountryOk(item, data)
    /\ YearOk(item, data)
    /\ DubbedOk(item, data)

BaseItem(type) ==
    [type |-> type, number |-> 1, absolute |-> 1, parent |-> 1, seasons |-> {1},
     episodes |-> {}, country |-> <<"U", "S">>, showCountry |-> <<"U", "S">>,
     anime |-> FALSE, dubbedOnly |-> FALSE, year |-> ItemYear]
BaseData(type) ==
    [seasons |-> IF type = "movie" THEN {} ELSE {1}, episodes |-> {},
     country |-> NoCountry, year |-> 0, dubbed |-> FALSE, garbage |-> FALSE]

ContextItems ==
    {BaseItem("movie")}
    \cup {[BaseItem("show") EXCEPT !.seasons = s, !.episodes = e] :
              s \in SUBSET SeasonNumbers, e \in SUBSET EpisodeNumbers}
    \cup {[BaseItem("season") EXCEPT !.number = n, !.episodes = e] :
              n \in SeasonNumbers, e \in SUBSET EpisodeNumbers}
    \cup {[BaseItem("episode") EXCEPT !.number = c[1], !.absolute = c[2], !.parent = c[3]] :
              c \in (1..2) \X {1, MaxEpNo} \X SeasonNumbers}

\* the pairs of item and parsed torrent the filters are run on
ContextCases ==
    {<<i, [BaseData(i.type) EXCEPT !.seasons = s, !.episodes = e]>> :
        i \in ContextItems, s \in SUBSET SeasonNumbers, e \in SUBSET EpisodeNumbers}
CountryCases ==
    {<<[BaseItem(c[1]) EXCEPT !.country = c[2], !.showCountry = c[3], !.anime = c[4],
                               !.dubbedOnly = c[5]],
       [BaseData(c[1]) EXCEPT !.country = c[6], !.dubbed = c[7]]>> :
        c \in ItemTypes \X ItemCountries \X ItemCountries \X BOOLEAN \X BOOLEAN
              \X TorrentCountries \X BOOLEAN}
YearCases ==
    {<<BaseItem(t), [BaseData(t) EXCEPT !.year = y, !.garbage = g]>> :
        t \in ItemTypes, y \in {0} \cup ((ItemYear - MaxYearDiff)..(ItemYear + MaxYearDiff)),
        g \in BOOLEAN}
PrCases == ContextCases \cup CountryCases \cup YearCases

\* the infohashes sort_torrents returns for one profile, best first
PrHashes == {"Aa", "aa", "bb"}
RankedLists == {q \in SeqsUpTo(PrHashes, Cardinality(PrHashes)) :
                   \A i, j \in DOMAIN q : i # j => q[i] # q[j]}
ProfileNames == <<"hq", "sd", "uhd", "mobile">>
CombinedKeys(combined) == {combined[i].infohash : i \in DOMAIN combined}

\* get_keep_versions_for_profile(profile_name) or 1
ProfileKeepVersions(p) == IF p.keep = 0 THEN 1 ELSE p.keep

\* lines 223-233 with a duplicate counted as added
RECURSIVE SelectStreamsCounting(_, _, _, _, _)
SelectStreamsCounting(combined, torrents, added, keepVersions, name) ==
    IF torrents = <<>> \/ added >= keepVersions THEN combined
    ELSE LET ih == Lower(Head(torrents))
         IN IF ih \in CombinedKeys(combined)
            THEN SelectStreamsCounting(combined, Tail(torrents), added + 1, keepVersions, name)
            ELSE SelectStreamsCounting(Append(combined, [infohash |-> ih, profile |-> name]),
                                          Tail(torrents), added + 1, keepVersions, name)

\* lines 223-233: the loop over one profile's sorted torrents
RECURSIVE SelectStreams(_, _, _, _, _)
SelectStreams(combined, torrents, added, keepVersions, name) ==
    IF torrents = <<>> \/ added >= keepVersions THEN combined
    ELSE LET ih == Lower(Head(torrents))
         IN IF ih \in CombinedKeys(combined)
            THEN SelectStreams(combined, Tail(torrents), added, keepVersions, name)
            ELSE SelectStreams(Append(combined, [infohash |-> ih, profile |-> name]),
                                  Tail(torrents), added + 1, keepVersions, name)

\* lines 55, 211-233: the loop over the profiles, from the k-th on
RECURSIVE SelectProfiles(_, _, _)
SelectProfiles(combined, profs, k) ==
    IF k > Len(profs) THEN combined
    ELSE SelectProfiles(SelectStreams(combined, profs[k].ranked, 0,
                                      ProfileKeepVersions(profs[k]), ProfileNames[k]),
                        profs, k + 1)

\* a profile's keep_versions_per_item (0: not set) and its sorted torrents
ProfileContext == [keep : 0..MaxKeepVersions, ranked : RankedLists]

InitPr ==
    /\ DlIdle
    /\ \/ /\ pc = "prFilter"
          /\ \E c \in PrCases : prItem = c[1] /\ prTorrent = c[2]
          /\ prRanked = <<>>
       \/ /\ pc = "prSelect"
          /\ prItem = <<>> /\ prTorrent = <<>>
          /\ \E n \in 0..MaxProfileCount : prRanked \in [1..n -> ProfileContext]
    /\ prAccepted = FALSE
    /\ prCombined = <<>>
    /\ posts = <<>>
    /\ WlIdle /\ EvIdle /\ W2pIdle /\ FsIdle /\ ExtIdle

\* the body of the loop over results for one ranked torrent (lines 71-209)
PrFilter ==
    /\ pc = "prFilter"
    /\ prAccepted' = TorrentAccepted(prItem, prTorrent)
    /\ pc' = "prFiltered"
    /\ UNCHANGED <<dlVars, wlVars, posts, evVars, w2pVars, prItem, prTorrent, prRanked,
                   prCombined, fsVars, extVars>>

\* the selection over all profiles (lines 211-248)
PrSelect ==
    /\ pc = "prSelect"
    /\ prCombined' = SelectProfiles(<<>>, prRanked, 1)
    /\ pc' = "prSelected"
    /\ UNCHANGED <<dlVars, wlVars, posts, evVars, w2pVars, prItem, prTorrent, prAccepted,
                   prRanked, fsVars, extVars>>

NextPr == PrFilter \/ PrSelect

SpecPr == InitPr /\ [][NextPr]_vars

\* ------------------------------------------------ FilesystemService.run
Leaves == {"e1", "e2", "e3"}
\* get_items_to_update(item): the movie itself, or the episodes of a show or season
LeafLists == {q \in SeqsUpTo(Leaves, MaxLeaves) : \A i, j \in DOMAIN q : i # j => q[i] # q[j]}
\* riven_vfs.add(leaf) -> bool
AddOutcomes == BOOLEAN
VfsCall(op, leaf, ok) == [op |-> op, leaf |-> leaf, ok |-> ok]

\* the calls of one iteration of the loop over the leaves (lines 87-109)
LeafCalls(leaf, ok, symlinks) ==
    (IF symlinks THEN <<VfsCall("remove_symlinks", leaf, TRUE)>> ELSE <<>>)
    \o <<VfsCall("remove", leaf, TRUE), VfsCall("add", leaf, ok)>>
    \o (IF ok /\ symlinks THEN <<VfsCall("create_symlinks", leaf, TRUE)>> ELSE <<>>)

InitFs ==
    /\ DlIdle
    /\ pc = "fsIdle"
    /\ vfsReady \in BOOLEAN
    /\ fsSymlinks \in BOOLEAN
    /\ fsLeaves \in LeafLists
    /\ fsLeft = <<>>
    /\ vfsCalls = <<>>
    /\ fsYields = 0
    /\ posts = <<>>
    /\ WlIdle /\ EvIdle /\ W2pIdle /\ PrIdle /\ ExtIdle

\* run up to the loop (lines 75-85): without a VFS or without leaves the item
\* is yielded at once
FsStart ==
    /\ pc = "fsIdle"
    /\ IF ~vfsReady \/ fsLeaves = <<>>
       THEN /\ fsYields' = fsYields + 1
            /\ fsLeft' = fsLeft
            /\ pc' = "fsDone"
       ELSE /\ fsYields' = fsYields
            /\ fsLeft' = fsLeaves
            /\ pc' = "fsLoop"
    /\ UNCHANGED <<dlVars, wlVars, posts, evVars, w2pVars, prVars, vfsReady, fsSymlinks,
                   fsLeaves, vfsCalls, extVars>>

\* one iteration in which a failed add ends the loop
FsLeafStopOnFailure ==
    /\ pc = "fsLoop" /\ fsLeft # <<>>
    /\ \E ok \in AddOutcomes :
          /\ vfsCalls' = vfsCalls \o LeafCalls(Head(fsLeft), ok, fsSymlinks)
          /\ fsLeft' = IF ok THEN Tail(fsLeft) ELSE <<>>
    /\ UNCHANGED <<dlVars, wlVars, posts, evVars, w2pVars, prVars, vfsReady, fsSymlinks,
                   fsLeaves, fsYields, pc, extVars>>

\* one iteration of the loop (lines 87-109): remove, add, and on a failed add
\* continue with the next leaf
FsLeaf ==
    /\ pc = "fsLoop" /\ fsLeft # <<>>
    /\ \E ok \in AddOutcomes :
          vfsCalls' = vfsCalls \o LeafCalls(Head(fsLeft), ok, fsSymlinks)
    /\ fsLeft' = Tail(fsLeft)
    /\ UNCHANGED <<dlVars, wlVars, posts, evVars, w2pVars, prVars, vfsReady, fsSymlinks,
                   fsLeaves, fsYields, pc, extVars>>

\* the yield after the loop (lines 111-114)
FsYield ==
    /\ pc = "fsLoop" /\ fsLeft = <<>>
    /\ fsYields' = fsYields + 1
    /\ pc' = "fsDone"
    /\ UNCHANGED <<dlVars, wlVars, posts, evVars, w2pVars, prVars, vfsReady, fsSymlinks,
                   fsLeaves, fsLeft, vfsCalls, extVars>>

NextFs == FsStart \/ FsLeaf \/ FsYield

SpecFs == InitFs /\ [][NextFs]_vars

\* ------------------------------ update_item_attributes on a show, two workers
\* The show has one season, number 1, with the episodes 1..MaxShowEps; item 0 is
\* the show or the season (shType), item n > 0 is episode n.
MaxShowEps == 2
MaxShFiles == 2
MaxShEvents == 2
ShWorkers == {1, 2}
ShItems == 0..MaxShowEps
\* file_data.seasons is empty
NoSeason == 0 - 1
\* the worker has no event
ShNoItem == MaxShowEps + 1
ItemType(x) == IF x = 0 THEN shType ELSE "episode"

\* the ParsedData of a container file: its episodes, the first of its seasons
\* (NoSeason when the list is empty), and whether the file has a download_url
ShEpisodeLists == {{}, {0}, {0, 1}, {1, 2}, {MaxShowEps + 1}}
ShFiles == [episodes : ShEpisodeLists, season : {NoSeason, 0, 1}, url : BOOLEAN]

\* episode_cap = max(number of episodes, number of the last episode)
EpisodeCap == MaxShowEps

\* show.get_absolute_episode(file_episode, season_number): the episode with that
\* number in the season, or by absolute number when no season is given; 0 for None
GetAbsoluteEpisode(n, season) ==
    IF n \in 1..MaxShowEps /\ season \in {NoSeason, 1} THEN n ELSE 0

\* the three "continue" branches of update_item_attributes for show, season and
\* episode items
FileSkipped(f) ==
    \/ f.episodes = {}
    \/ (0 \in f.episodes /\ Cardinality(f.episodes) = 1)
    \/ f.season = 0

\* the same without processed_episode_ids
MatchedEpisodesAgain(f, final, processed) ==
    {n \in f.episodes :
        /\ ~(EpisodeCap # 0 /\ n > EpisodeCap)
        /\ GetAbsoluteEpisode(n, f.season) # 0
        /\ GetAbsoluteEpisode(n, f.season) \notin final}

\* the episodes match_file_to_item passes to _update_attributes for one file
MatchedEpisodes(f, final, processed) ==
    {n \in f.episodes :
        /\ ~(EpisodeCap # 0 /\ n > EpisodeCap)
        /\ GetAbsoluteEpisode(n, f.season) # 0
        /\ GetAbsoluteEpisode(n, f.season) \notin final
        /\ GetAbsoluteEpisode(n, f.season) \notin processed}

\* the file is parsed as episode 0 or season 0
Special(f) == 0 \in f.episodes \/ f.season = 0

\* _update_attributes(episode, ...): active_stream always, a MediaEntry when the
\* file has a download_url
EpisodeAttributes(by, to, f, busy, at) ==
    {[by |-> by, to |-> to, field |-> "active_stream", busy |-> busy,
      special |-> Special(f), file |-> at]}
    \cup (IF f.url
          THEN {[by |-> by, to |-> to, field |-> "filesystem_entries", busy |-> busy,
                 special |-> Special(f), file |-> at]}
          ELSE {})

ShIdleWorker == [item |-> ShNoItem, left |-> 0, processed |-> {}, found |-> FALSE, pass |-> 0]

InitSh ==
    /\ DlIdle
    /\ pc = "sh"
    /\ posts = <<>>
    /\ WlIdle /\ EvIdle /\ W2pIdle /\ PrIdle /\ FsIdle /\ CcIdle /\ MgIdle /\ RsIdle /\ LateIdle
    /\ shType \in {"show", "season"}
    /\ shFinal \in SUBSET (1..MaxShowEps)
    /\ shInProgress = {}
    /\ shWorker = [w \in ShWorkers |-> ShIdleWorker]
    /\ shWrites = {}
    /\ shStarted = 0

shRest == <<dlVars, pc, wlVars, posts, evVars, w2pVars, prVars, fsVars, ccVars, mgVars, rsVars, lateVars>>

\* the scheduler hands an event to a free worker unless the item already has
\* one in flight; the worker's service is the downloader, which has a container
ShDispatch(w, x) ==
    /\ shWorker[w].item = ShNoItem
    /\ x \notin shInProgress
    /\ shStarted < MaxShEvents
    /\ \E n \in 1..MaxShFiles :
          shWorker' = [shWorker EXCEPT ![w] =
                         [item |-> x, left |-> n, processed |-> {}, found |-> FALSE,
                          pass |-> shStarted + 1]]
    /\ shInProgress' = shInProgress \cup {x}
    /\ shStarted' = shStarted + 1
    /\ UNCHANGED <<shRest, shType, shFinal, shWrites>>

\* one iteration of "for file in files" of update_item_attributes
ShFile(w) ==
    /\ shWorker[w].item # ShNoItem
    /\ shWorker[w].left > 0
    /\ \E f \in ShFiles :
          LET me == shWorker[w]
              m == IF FileSkipped(f) THEN {}
                   ELSE MatchedEpisodes(f, shFinal, me.processed)
          IN /\ shWrites' = shWrites \cup
                   UNION {LET e == GetAbsoluteEpisode(n, f.season)
                          IN EpisodeAttributes(me.item, e, f,
                                               e # me.item /\ e \in shInProgress,
                                               <<me.pass, me.left>>) : n \in m}
                   \cup (IF m # {} /\ ItemType(me.item) \in {"show", "season"}
                         THEN {[by |-> me.item, to |-> me.item, field |-> "active_stream",
                                busy |-> FALSE, special |-> Special(f),
                                file |-> <<me.pass, me.left>>]}
                         ELSE {})
             /\ shWorker' = [shWorker EXCEPT ![w] =
                               [item |-> me.item, left |-> me.left - 1,
                                processed |-> me.processed \cup m,
                                found |-> me.found \/ m # {}, pass |-> me.pass]]
    /\ UNCHANGED <<shRest, shType, shFinal, shInProgress, shStarted>>

\* the event ends and the scheduler releases the item
ShFinish(w) ==
    /\ shWorker[w].item # ShNoItem
    /\ shWorker[w].left = 0
    /\ shInProgress' = shInProgress \ {shWorker[w].item}
    /\ shWorker' = [shWorker EXCEPT ![w] = ShIdleWorker]
    /\ UNCHANGED <<shRest, shType, shFinal, shWrites, shStarted>>

NextSh ==
    \E w \in ShWorkers :
        \/ \E x \in ShItems : ShDispatch(w, x)
        \/ ShFile(w)
        \/ ShFinish(w)

SpecSh == InitSh /\ [][NextSh]_vars

\* ------------------------------- Downloader.run on two workers, one Downloader
MaxCcRuns == 3
CcWorkers == {1, 2}

\* the services of available_services: not in the map, or past their deadline
CcAvailable(services, cds) ==
    {k \in services : k \notin DOMAIN cds \/ cds[k] = "expired"}

\* self._service_cooldowns[service.key] = now + 60 s, for each key of B
CcRecord(cds, B) ==
    [k \in DOMAIN cds \cup B |-> IF k \in B THEN "active" ELSE cds[k]]

InitCc ==
    /\ DlIdle
    /\ pc = "cc"
    /\ posts = <<>>
    /\ WlIdle /\ EvIdle /\ W2pIdle /\ PrIdle /\ FsIdle /\ ShIdle /\ MgIdle /\ RsIdle /\ LateIdle
    /\ ccServices \in {{AllServices[i] : i \in 1..n} : n \in 1..MaxProviders}
    /\ ccCooldowns = <<>>
    /\ ccPc = [w \in CcWorkers |-> "idle"]
    /\ ccHit = [w \in CcWorkers |-> FALSE]
    /\ ccSuccess = [w \in CcWorkers |-> FALSE]
    /\ ccMinEmpty = FALSE
    /\ ccRuns = 0

ccRest == <<dlVars, pc, wlVars, posts, evVars, w2pVars, prVars, fsVars, shVars, mgVars, rsVars, lateVars>>

\* run, lines 67-75: available_services is computed from the shared map
CcStart(w) ==
    /\ ccPc[w] = "idle"
    /\ ccRuns < MaxCcRuns
    /\ ccRuns' = ccRuns + 1
    /\ ccPc' = [ccPc EXCEPT ![w] = IF CcAvailable(ccServices, ccCooldowns) = {}
                                   THEN "reschedule" ELSE "attempt"]
    /\ ccHit' = [ccHit EXCEPT ![w] = FALSE]
    /\ ccSuccess' = [ccSuccess EXCEPT ![w] = FALSE]
    /\ UNCHANGED <<ccRest, ccServices, ccCooldowns, ccMinEmpty>>

\* run, lines 76-83: next_attempt = min(self._service_cooldowns.values())
CcReschedule(w) ==
    /\ ccPc[w] = "reschedule"
    /\ ccMinEmpty' = (ccMinEmpty \/ DOMAIN ccCooldowns = {})
    /\ ccPc' = [ccPc EXCEPT ![w] = "idle"]
    /\ UNCHANGED <<ccRest, ccServices, ccCooldowns, ccHit, ccSuccess, ccRuns>>

\* the stream loop: the services of B raise CircuitBreakerOpen and get a
\* cooldown (lines 325-336); a download can succeed on a service outside B
CcAttempt(w) ==
    /\ ccPc[w] = "attempt"
    /\ \E B \in SUBSET ccServices :
          /\ ccCooldowns' = CcRecord(ccCooldowns, B)
          /\ ccHit' = [ccHit EXCEPT ![w] = B # {}]
          /\ \E ok \in (IF B = ccServices THEN {FALSE} ELSE BOOLEAN) :
                ccSuccess' = [ccSuccess EXCEPT ![w] = ok]
    /\ ccPc' = [ccPc EXCEPT ![w] = "end"]
    /\ UNCHANGED <<ccRest, ccServices, ccMinEmpty, ccRuns>>

\* run, lines 403-422
CcEnd(w) ==
    /\ ccPc[w] = "end"
    /\ IF ~ccSuccess[w]
       THEN /\ ccMinEmpty' = (ccMinEmpty \/ (/\ ccHit[w]
                                             /\ Cardinality(ccServices) = 1
                                             /\ DOMAIN ccCooldowns = {}))
            /\ UNCHANGED ccCooldowns
       ELSE /\ ccCooldowns' = <<>>
            /\ UNCHANGED ccMinEmpty
    /\ ccPc' = [ccPc EXCEPT ![w] = "idle"]
    /\ UNCHANGED <<ccRest, ccServices, ccHit, ccSuccess, ccRuns>>

\* datetime.now() passes the deadline of a cooldown
CcExpire(k) ==
    /\ k \in DOMAIN ccCooldowns
    /\ ccCooldowns[k] = "active"
    /\ ccCooldowns' = [ccCooldowns EXCEPT ![k] = "expired"]
    /\ UNCHANGED <<ccRest, ccServices, ccPc, ccHit, ccSuccess, ccMinEmpty, ccRuns>>

NextCc ==
    \/ \E w \in CcWorkers : CcStart(w) \/ CcReschedule(w) \/ CcAttempt(w) \/ CcEnd(w)
    \/ \E i \in 1..MaxProviders : CcExpire(AllServices[i])

SpecCc == InitCc /\ [][NextCc]_vars

\* ------------------------------------------------------ schema migrations
\* migration 1 adds MediaEntry.infohash and ix_media_entry_infohash, migration 2
\* adds Stream.profile_name and ix_stream_profile_name; both have the same code
MaxMgOps == 3
Migrations == <<"add_mediaentry_infohash", "add_stream_profile_name">>
MgIds == DOMAIN Migrations

\* a schema before the migration, or one that already has column and index
MgSchemas == {[table |-> FALSE, column |-> FALSE, index |-> FALSE],
              [table |-> TRUE, column |-> FALSE, index |-> FALSE],
              [table |-> TRUE, column |-> TRUE, index |-> TRUE]}

\* upgrade up to op.add_column: the schema afterwards and whether the function
\* goes on to op.create_index
UpgradeAddColumn(sc) ==
    IF ~sc.table THEN [schema |-> sc, goon |-> FALSE]
    ELSE IF sc.column THEN [schema |-> sc, goon |-> FALSE]
    ELSE [schema |-> [sc EXCEPT !.column = TRUE], goon |-> TRUE]

\* op.create_index: raises when the index exists
CreateIndex(sc) ==
    IF sc.index THEN [schema |-> sc, raised |-> TRUE]
    ELSE [schema |-> [sc EXCEPT !.index = TRUE], raised |-> FALSE]

\* downgrade: op.drop_index raises when the index does not exist
Downgrade(sc) ==
    IF ~sc.table \/ ~sc.column THEN [schema |-> sc, raised |-> FALSE]
    ELSE IF ~sc.index THEN [schema |-> sc, raised |-> TRUE]
    ELSE [schema |-> [sc EXCEPT !.index = FALSE, !.column = FALSE], raised |-> FALSE]

InitMg ==
    /\ DlIdle
    /\ pc = "mg"
    /\ posts = <<>>
    /\ WlIdle /\ EvIdle /\ W2pIdle /\ PrIdle /\ FsIdle /\ ShIdle /\ CcIdle /\ RsIdle /\ LateIdle
    /\ mgSchema \in [MgIds -> MgSchemas]
    /\ mgPc = [i \in MgIds |-> "idle"]
    /\ mgDone = [i \in MgIds |-> "none"]
    /\ mgError = FALSE
    /\ mgOps = 0

mgRest == <<dlVars, pc, wlVars, posts, evVars, w2pVars, prVars, fsVars, shVars, ccVars, rsVars, lateVars>>

\* upgrade, lines 24-45 and 24-42
MgUpgrade(i) ==
    /\ mgPc[i] = "idle"
    /\ mgOps < MaxMgOps
    /\ mgOps' = mgOps + 1
    /\ mgSchema' = [mgSchema EXCEPT ![i] = UpgradeAddColumn(mgSchema[i]).schema]
    /\ IF UpgradeAddColumn(mgSchema[i]).goon
       THEN mgPc' = [mgPc EXCEPT ![i] = "added"] /\ mgDone' = [mgDone EXCEPT ![i] = "none"]
       ELSE mgPc' = mgPc /\ mgDone' = [mgDone EXCEPT ![i] = "upgrade"]
    /\ UNCHANGED <<mgRest, mgError>>

\* upgrade, lines 46-51 and 43-48
MgCreateIndex(i) ==
    /\ mgPc[i] = "added"
    /\ mgSchema' = [mgSchema EXCEPT ![i] = CreateIndex(mgSchema[i]).schema]
    /\ mgError' = (mgError \/ CreateIndex(mgSchema[i]).raised)
    /\ mgPc' = [mgPc EXCEPT ![i] = "idle"]
    /\ mgDone' = [mgDone EXCEPT ![i] = "upgrade"]
    /\ UNCHANGED <<mgRest, mgOps>>

\* the run is interrupted after op.add_column: a database with transactional
\* DDL takes the column back, another keeps it
MgInterrupt(i) ==
    /\ mgPc[i] = "added"
    /\ \E kept \in BOOLEAN :
          mgSchema' = [mgSchema EXCEPT ![i] = [@ EXCEPT !.column = kept]]
    /\ mgPc' = [mgPc EXCEPT ![i] = "idle"]
    /\ UNCHANGED <<mgRest, mgDone, mgError, mgOps>>

\* downgrade, lines 54-71 and 51-67
MgDowngrade(i) ==
    /\ mgPc[i] = "idle"
    /\ mgOps < MaxMgOps
    /\ mgOps' = mgOps + 1
    /\ mgSchema' = [mgSchema EXCEPT ![i] = Downgrade(mgSchema[i]).schema]
    /\ mgError' = (mgError \/ Downgrade(mgSchema[i]).raised)
    /\ mgDone' = [mgDone EXCEPT ![i] = "downgrade"]
    /\ UNCHANGED <<mgRest, mgPc>>

NextMg ==
    \E i \in MgIds :
        MgUpgrade(i) \/ MgCreateIndex(i) \/ MgInterrupt(i) \/ MgDowngrade(i)

SpecMg == InitMg /\ [][NextMg]_vars

\* ------------------------- RankingSettings.get_profile_name_for_path, select_top_n
\* paths are sequences of characters
MaxPathLen == 2
MaxMappings == 2
MaxTopStreams == 3
PathChars == {"a", "b"}
MappingPaths == SeqsUpTo(PathChars, MaxPathLen) \ {<<>>}
QueryPaths == SeqsUpTo(PathChars, MaxPathLen + 1)
DefaultProfile == "default"
\* the keys of settings.profiles
KnownProfiles == {"default", "hq"}
\* a mapping can name a profile that settings.profiles does not have
MappingProfiles == {"hq", "missing"}

IsPrefix(a, b) == Len(a) <= Len(b) /\ SubSeq(b, 1, Len(a)) = a

\* the mappings whose path is a prefix of the query
PrefixMappings(query, mappings) == {m \in mappings : IsPrefix(m.path, query)}

\* the one with the longest path (paths are unique)
LongestMapping(ms) == CHOOSE m \in ms : \A o \in ms : Len(o.path) <= Len(m.path)

\* get_profile_name_for_path: the profile of the longest prefix mapping,
\* default_profile when there is none or when settings.profiles does not
\* have the profile the mapping names
GetProfileNameForPath(query, mappings) ==
    LET ms == PrefixMappings(query, mappings)
    IN IF ms = {} THEN DefaultProfile
       ELSE IF LongestMapping(ms).profile_name \in KnownProfiles
            THEN LongestMapping(ms).profile_name
            ELSE DefaultProfile

\* the same, passing over the mappings that name an unknown profile
GetProfileNameAmongKnown(query, mappings) ==
    LET ms == {m \in PrefixMappings(query, mappings) : m.profile_name \in KnownProfiles}
    IN IF ms = {} THEN DefaultProfile ELSE LongestMapping(ms).profile_name

StreamKeys == {"a", "b", "c"}
StreamObjects == {"s1", "s2"}
\* ordered mappings: no key twice
OrderedStreams ==
    {q \in SeqsUpTo(StreamKeys \X StreamObjects, MaxTopStreams) :
        \A i, j \in DOMAIN q : i # j => q[i][1] # q[j][1]}

\* select_top_n with keep_versions raised to the documented minimum of 1
SelectTopNAtLeastOne(strs, keepVersions) ==
    SubSeq(strs, 1, IF keepVersions <= 0 THEN (IF Len(strs) < 1 THEN Len(strs) ELSE 1)
                    ELSE IF keepVersions < Len(strs) THEN keepVersions ELSE Len(strs))

\* select_top_n: list(streams.items())[:keep_versions], {} when keep_versions <= 0
SelectTopN(strs, keepVersions) ==
    IF keepVersions <= 0 THEN <<>>
    ELSE SubSeq(strs, 1, IF keepVersions < Len(strs) THEN keepVersions ELSE Len(strs))

InitRs ==
    /\ DlIdle
    /\ posts = <<>>
    /\ WlIdle /\ EvIdle /\ W2pIdle /\ PrIdle /\ FsIdle /\ ShIdle /\ CcIdle /\ MgIdle /\ LateIdle
    /\ ppResult = "" /\ tnResult = <<>>
    /\ \/ /\ pc = "pp"
          /\ ppQuery \in QueryPaths
          /\ \E ps \in {P \in SUBSET MappingPaths : Cardinality(P) <= MaxMappings} :
                ppMappings \in {{[path |-> q, profile_name |-> f[q]] : q \in ps} :
                                  f \in [ps -> MappingProfiles]}
          /\ tnStreams = <<>> /\ tnKeep = 0
       \/ /\ pc = "tn"
          /\ tnStreams \in OrderedStreams
          /\ tnKeep \in (0 - 1)..(MaxTopStreams + 1)
          /\ ppQuery = <<>> /\ ppMappings = {}

rsRest == <<dlVars, wlVars, posts, evVars, w2pVars, prVars, fsVars, shVars, ccVars, mgVars, lateVars>>

\* ranking_settings.get_profile_name_for_path(library_path)
PpLookup ==
    /\ pc = "pp"
    /\ ppResult' \in {GetProfileNameForPath(ppQuery, ppMappings),
                      GetProfileNameAmongKnown(ppQuery, ppMappings)}
    /\ pc' = "ppDone"
    /\ UNCHANGED <<rsRest, ppQuery, ppMappings, tnStreams, tnKeep, tnResult>>

\* select_top_n(streams, keep_versions)
TnSelect ==
    /\ pc = "tn"
    /\ tnResult' = SelectTopN(tnStreams, tnKeep)
    /\ pc' = "tnDone"
    /\ UNCHANGED <<rsRest, ppQuery, ppMappings, ppResult, tnStreams, tnKeep>>

NextRs == PpLookup \/ TnSelect

SpecRs == InitRs /\ [][NextRs]_vars

\* ------------------------------ Downloader.download_cached_stream_on_service
MaxFileIds == 2
ProbeTorrent == "probe"
DcContainers == [torrent_id : {NoHash, ProbeTorrent}, torrent_info : BOOLEAN,
                 file_ids : SUBSET (1..MaxFileIds)]
ProviderAnswers == {"ok", "cb", "err"}

\* The function as a run over its statements: the provider calls it makes, how
\* it ends and the id it returns.  The local torrent_id is bound only under
\* "if container.torrent_id"; reading it unbound raises.
DownloadCachedStreamOnService(c, ans) ==
    LET bound == c.torrent_id # NoHash
        needInfo == ~c.torrent_info
        needSelect == c.file_ids # {}
    IN IF needInfo /\ ~bound THEN [calls |-> <<>>, end |-> "unbound", id |-> NoHash]
       ELSE IF needInfo /\ ans.info # "ok"
            THEN [calls |-> <<"get_torrent_info">>, end |-> ans.info, id |-> NoHash]
       ELSE LET c1 == IF needInfo THEN <<"get_torrent_info">> ELSE <<>>
            IN IF needSelect /\ ~bound THEN [calls |-> c1, end |-> "unbound", id |-> NoHash]
               ELSE IF needSelect /\ ans.select # "ok"
                    THEN [calls |-> Append(c1, "select_files"), end |-> ans.select,
                          id |-> NoHash]
               ELSE IF ~bound
                    THEN [calls |-> c1, end |-> "unbound", id |-> NoHash]
               ELSE [calls |-> IF needSelect THEN Append(c1, "select_files") ELSE c1,
                     end |-> "returned", id |-> c.torrent_id]

InitDc ==
    /\ DlIdle
    /\ pc = "dc"
    /\ posts = <<>>
    /\ WlIdle /\ EvIdle /\ W2pIdle /\ PrIdle /\ FsIdle /\ ShIdle /\ CcIdle /\ MgIdle /\ RsIdle
    /\ MdIdle /\ YdIdle
    /\ dcContainer \in DcContainers
    /\ dcAnswers \in [info : ProviderAnswers, select : ProviderAnswers]
    /\ dcCalls = <<>>
    /\ dcReturn = <<>>

dcRest == <<dlVars, wlVars, posts, evVars, w2pVars, prVars, fsVars, shVars, ccVars, mgVars,
            rsVars, mdVars, ydVars>>

\* download_cached_stream_on_service(stream, container, service)
DcDownload ==
    /\ pc = "dc"
    /\ \E r \in {DownloadCachedStreamOnService(dcContainer, dcAnswers)} :
          /\ dcCalls' = r.calls
          /\ dcReturn' = <<r.end, r.id>>
    /\ pc' = "dcDone"
    /\ UNCHANGED <<dcRest, dcContainer, dcAnswers>>

NextDc == DcDownload

SpecDc == InitDc /\ [][NextDc]_vars

\* --------------------------- the re-ranking of the pre-validated candidates
MaxRankCands == 2
MaxSizedFiles == 3
\* file.filesize: 0 stands for None and for a size that is not positive
FileSizes == {0, 1, 3}
\* torrent_info.bytes
TotalSizes == {2, 4}
\* the season of the release in aliases.w2p_releases; 0 stands for None
ReleaseSeasons == 0..2
RankCands == [season : ReleaseSeasons,
              sizes : SeqsUpTo(FileSizes, MaxSizedFiles) \ {<<>>},
              total : TotalSizes]

\* file_sizes.sort()
RECURSIVE SortSizes(_)
SortSizes(q) ==
    IF q = <<>> THEN <<>>
    ELSE LET least == MinOf(Range(q))
             i == MinOf({j \in DOMAIN q : q[j] = least})
         IN <<least>> \o SortSizes(SubSeq(q, 1, i - 1) \o SubSeq(q, i + 1, Len(q)))

\* the median as the arithmetic mean of the sizes
MeanFileSize(c) ==
    LET pos == SelectSeq(c.sizes, LAMBDA x : x > 0)
        Sum[i \in 0..Len(pos)] == IF i = 0 THEN 0 ELSE Sum[i - 1] + pos[i]
    IN IF pos = <<>> THEN c.total ELSE Sum[Len(pos)] \div Len(pos)

\* _calculate_median_file_size(container) for a container that has files
CalculateMedianFileSize(c) ==
    LET fileSizes == SortSizes(SelectSeq(c.sizes, LAMBDA x : x > 0))
        n == Len(fileSizes)
    IN IF n = 0 THEN c.total
       ELSE IF n % 2 = 0
            THEN (fileSizes[n \div 2] + fileSizes[n \div 2 + 1]) \div 2
            ELSE fileSizes[n \div 2 + 1]

\* is_single_season, matches_target_season as the numbers the key negates
IsSingleSeason(c) == IF c.season # 0 THEN 1 ELSE 0
MatchesTargetSeason(c, target) ==
    IF c.season # 0 /\ target # 0 /\ c.season = target THEN 1 ELSE 0

\* the sort key (-matches_target_season, -is_single_season, -median_file_size)
\* compared as tuples: a sorts strictly before b
KeyBefore(a, b, target) ==
    LET ka == <<0 - MatchesTargetSeason(a, target), 0 - IsSingleSeason(a),
                0 - CalculateMedianFileSize(a)>>
        kb == <<0 - MatchesTargetSeason(b, target), 0 - IsSingleSeason(b),
                0 - CalculateMedianFileSize(b)>>
    IN \/ ka[1] < kb[1]
       \/ ka[1] = kb[1] /\ ka[2] < kb[2]
       \/ ka[1] = kb[1] /\ ka[2] = kb[2] /\ ka[3] < kb[3]

\* list.sort(key=...): stable
RECURSIVE InsertByKey(_, _, _)
InsertByKey(sorted, c, target) ==
    IF sorted = <<>> THEN <<c>>
    ELSE IF KeyBefore(c, Head(sorted), target) THEN <<c>> \o sorted
         ELSE <<Head(sorted)>> \o InsertByKey(Tail(sorted), c, target)

RECURSIVE SortCandidates(_, _)
SortCandidates(cs, target) ==
    IF cs = <<>> THEN <<>>
    ELSE InsertByKey(SortCandidates(SubSeq(cs, 1, Len(cs) - 1), target), cs[Len(cs)], target)

InitMd ==
    /\ DlIdle
    /\ pc = "md"
    /\ posts = <<>>
    /\ WlIdle /\ EvIdle /\ W2pIdle /\ PrIdle /\ FsIdle /\ ShIdle /\ CcIdle /\ MgIdle /\ RsIdle
    /\ DcIdle /\ YdIdle
    /\ \E n \in 1..MaxRankCands : mdCands \in [1..n -> RankCands]
    /\ mdTarget \in 0..1
    /\ mdSorted = <<>>

mdRest == <<dlVars, wlVars, posts, evVars, w2pVars, prVars, fsVars, shVars, ccVars, mgVars,
            rsVars, dcVars, ydVars>>

\* validated_candidates.sort(key=...), lines 209-211
MdSort ==
    /\ pc = "md"
    /\ mdSorted' = SortCandidates(mdCands, mdTarget)
    /\ pc' = "mdDone"
    /\ UNCHANGED <<mdRest, mdCands, mdTarget>>

NextMd == MdSort

SpecMd == InitMd /\ [][NextMd]_vars

\* ------------------------------ the stream loop and its "yield item"
MaxLoopStreams == 5

InitYd ==
    /\ DlIdle
    /\ pc = "yd"
    /\ posts = <<>>
    /\ WlIdle /\ EvIdle /\ W2pIdle /\ PrIdle /\ FsIdle /\ ShIdle /\ CcIdle /\ MgIdle /\ RsIdle
    /\ DcIdle /\ MdIdle
    /\ ydLeft \in 0..MaxLoopStreams
    /\ ydKeep \in 1..MaxLoopStreams
    /\ ydExisting \in 0..1
    /\ ydTried = 0
    /\ ydYieldsAt = <<>>

ydRest == <<dlVars, wlVars, posts, evVars, w2pVars, prVars, fsVars, shVars, ccVars, mgVars,
            rsVars, dcVars, mdVars>>

\* tried_streams += 1; if tried_streams >= 3: yield item
YieldsAfter(yieldsAt, triedStreams) ==
    IF triedStreams >= YieldEvery THEN Append(yieldsAt, triedStreams) ELSE yieldsAt

\* one iteration of "for stream in streams_to_process" (lines 232-382): the
\* stream is materialized on some provider, or on none
YdStream ==
    /\ pc = "yd"
    /\ ydLeft > 0
    /\ ydExisting < ydKeep
    /\ \E ok \in BOOLEAN : ydExisting' = IF ok THEN ydExisting + 1 ELSE ydExisting
    /\ ydTried' = ydTried + 1
    /\ ydYieldsAt' = YieldsAfter(ydYieldsAt, ydTried + 1)
    /\ ydLeft' = ydLeft - 1
    /\ UNCHANGED <<ydRest, pc, ydKeep>>

\* the loop is exhausted, or breaks at its head (lines 233-235)
YdLoopEnd ==
    /\ pc = "yd"
    /\ (ydLeft = 0 \/ ydExisting >= ydKeep)
    /\ pc' = "ydDone"
    /\ UNCHANGED <<ydRest, ydVars>>

NextYd == YdStream \/ YdLoopEnd

SpecYd == InitYd /\ [][NextYd]_vars

\* ------------------------------------------------------------ properties
Last(q) == q[Len(q)]
CountProfile(ents, p) == Cardinality({i \in DOMAIN ents : ents[i].profile = p})
AllCooling == \A k \in initSet : k \in DOMAIN cooldowns /\ cooldowns[k] > now
InPass == pc \in {"preval", "svc", "cleanup"}
PassStep == PrevalidateCandidate \/ Attempt \/ EndPass

\* what is left of the pass: candidates to probe, then provider attempts of the
\* remaining streams, then the cleanup
Remaining ==
    IF pc = "preval" THEN (MaxStreams + 1) * (MaxProviders + 2) + Len(pvLeft)
    ELSE IF pc = "svc" THEN 2 + Len(todo) * (Len(avail) + 1) - svcIdx
    ELSE IF pc = "cleanup" THEN 1
    ELSE 0

\* C1: whatever the number of initialized providers, a stream whose provider
\* attempts in the pass all ended in CircuitBreakerOpen is never blacklisted
C1_CircuitBreakerOnlyNeverBlacklisted == blCbOnly = {}

\* C2: after a pass has run retention, no profile holds more entries than the
\* configured keep_versions
C2_ProfileCountWithinConfigured ==
    (pc = "done" /\ treated \in {"success", "failure"})
        => \A p \in Profiles : CountProfile(entries, p) <= cfgKeep

\* C3: starting from an item without entries, no two entries ever share both
\* the infohash (compared case-insensitively) and the profile name
C3_NoDuplicateInfohashProfile ==
    \A i, j \in DOMAIN entries :
        (i # j /\ Lower(entries[i].infohash) = Lower(entries[j].infohash))
            => entries[i].profile # entries[j].profile

C3_TwoVersionsKept ==
    /\ pc = "done" /\ Len(entries) = 2
    /\ entries[1].profile = entries[2].profile
    /\ entries[1].infohash # entries[2].infohash

\* C4: whenever the item's entries have been updated from a download,
\* active_stream names the infohash of one of the item's entries
C4_ActiveStreamHasEntry ==
    (pc \in {"svc", "cleanup", "done"} /\ active.infohash # NoHash)
        => \E i \in DOMAIN entries : Lower(entries[i].infohash) = Lower(active.infohash)

\* C5: applying retention to an item on which retention has just been applied,
\* with the same streams, keep_versions and desired hashes, changes neither the
\* entries nor active_stream
C5_RetentionIdempotent ==
    pc \in {"ret1", "ret2"} => (Retained.entries = entries /\ Retained.active = active)

C5_RetentionTrimmed ==
    /\ pc = "ret2" /\ keep = 1 /\ Len(entries) = 2
    /\ entries[1].id > entries[2].id
    /\ active.infohash = entries[1].infohash /\ active.infohash # "bb"

\* C6: a pass that ends without a successful download while every initialized
\* provider is in cooldown yields last the pair of the item and the earliest
\* cooldown deadline
C6_AllCoolingYieldsEarliest ==
    (pc = "done" /\ ~raised /\ ~success /\ AllCooling)
        => Last(yields) = Retry(MinOf(Range(cooldowns)))

C8_SuccessIffAllDesiredPresent ==
    (pc = "done" /\ treated \in {"success", "failure"})
        => (treated = "success" <=> Range(desired) \subseteq ExistingInfohashes(entries))

C10_UnusedPrevalidatedDeleted ==
    pc = "done" =>
        \A p \in probes : (<<p.svc, p.tid>> \notin promoted) =>
            [svc |-> p.svc, tid |-> p.tid] \in deletes


\* C11: every POST to the harvest-item endpoint, from the watchlist or from the
\* Episode Validator, carries exactly one element in "items"
C11_OneItemPerPost == \A k \in DOMAIN posts : Len(posts[k].items) = 1

\* C12: an existing item with w2p_attempt_count at 3 and no stored releases is
\* in no harvester request, and w2p_attempt_count never exceeds 3
C12_AttemptCountCapped ==
    /\ \A k \in DOMAIN posts : \A i \in Range(posts[k].items) :
          ~(wlBefore[i].exists /\ wlBefore[i].count >= MaxAttempts /\ ~wlBefore[i].releases)
    /\ \A i \in DOMAIN wlDb : wlDb[i].count <= MaxAttempts

\* C13: after a cycle, every item whose harvester call failed exists with its
\* w2p_attempt_count one higher than before and its w2p_last_attempt recorded
C13_FailedHarvestCounted ==
    pc = "wlDone" =>
        \A i \in wlFailed : /\ wlDb[i].exists /\ wlDb[i].recent
                            /\ wlDb[i].count = wlBefore[i].count + 1

\* what the title rule asks for: the first line of the raw title, non-ASCII
\* stripped and whitespace collapsed
FirstLineOnly(s) == Strip(CollapseWhitespace(StripNonAscii(FirstLine(s))))

\* C14: when run returns, the title stored under a key for a release with a
\* string title is the cleaned first line of that release's raw title, so no
\* text of its second and later lines appears in it.
C14_TitleIsFirstLineOnly ==
    pc = "w2pDone" =>
        \A e \in scraped :
            \E i \in DOMAIN rel :
                /\ LowerInfohash(ReleaseInfohash(rel[i])) = e.key
                /\ \/ rel[i].title.kind # "str"
                   \/ e.title = FirstLineOnly(rel[i].title.chars)

\* C15: every key of the mapping returned by run is a 40-character lower-case
\* hexadecimal infohash.
C15_KeysAreValidInfohashes ==
    \A e \in scraped : e.key.len = HashLen /\ e.key.case = "lower"

\* the position of a profile in the profile order
ProfileIndex(name) == CHOOSE k \in DOMAIN ProfileNames : ProfileNames[k] = name
\* the infohashes the returned mapping tags with the k-th profile
Contribution(k) ==
    {prCombined[i].infohash : i \in {j \in DOMAIN prCombined : prCombined[j].profile = ProfileNames[k]}}
\* the infohashes the returned mapping tags with a profile before the k-th
TakenBefore(k) ==
    {prCombined[i].infohash :
        i \in {j \in DOMAIN prCombined : ProfileIndex(prCombined[j].profile) < k}}
\* the infohashes of the k-th profile's sorted torrents no earlier profile took
Available(k) == {Lower(h) : h \in Range(prRanked[k].ranked)} \ TakenBefore(k)

\* the rank of the best torrent with infohash h in a profile's sorted torrents
FirstRank(ranked, h) == MinOf({i \in DOMAIN ranked : Lower(ranked[i]) = h})

\* C16: in the mapping _parse_results returns each infohash occurs once; the
\* streams tagged with a profile are infohashes of that profile's sorted
\* torrents that no earlier profile took, the best ranked of them first, at
\* most keep_versions of them, and exactly keep_versions when that many are
\* left after dropping the ones earlier profiles took (a dropped duplicate
\* uses no slot).
C16_FirstProfileTakesInfohash ==
    pc = "prSelected" =>
        /\ \A i, j \in DOMAIN prCombined :
               i # j => prCombined[i].infohash # prCombined[j].infohash
        /\ \A i \in DOMAIN prCombined : ProfileIndex(prCombined[i].profile) \in DOMAIN prRanked
        /\ \A k \in DOMAIN prRanked :
               LET keepVersions == ProfileKeepVersions(prRanked[k])
                   ranked == prRanked[k].ranked
               IN /\ Contribution(k) \subseteq Available(k)
                  /\ Cardinality(Contribution(k)) <= keepVersions
                  /\ Cardinality(Contribution(k)) =
                        IF Cardinality(Available(k)) < keepVersions
                        THEN Cardinality(Available(k)) ELSE keepVersions
                  /\ \A x \in Contribution(k), y \in Available(k) \ Contribution(k) :
                        FirstRank(ranked, x) < FirstRank(ranked, y)

\* a later profile whose best torrent was taken by an earlier profile still
\* contributes its full keep_versions
C16_DuplicateSkippedSlotKept ==
    /\ pc = "prSelected"
    /\ \E k \in DOMAIN prRanked :
          /\ k > 1
          /\ prRanked[k].ranked # <<>>
          /\ Lower(Head(prRanked[k].ranked)) \in TakenBefore(k)
          /\ Cardinality(Contribution(k)) = ProfileKeepVersions(prRanked[k])

\* a Season item and a torrent that the other filters let through
SeasonCase ==
    /\ pc = "prFiltered"
    /\ prItem.type = "season"
    /\ ~prItem.anime
    /\ ~prTorrent.garbage /\ prTorrent.country = NoCountry /\ prTorrent.year = 0
\* the filter rule for a Season item: the season number is annotated, and the
\* torrent annotates no episodes or at least 3 with all of the item's among them
SeasonRule ==
    /\ prItem.number \in prTorrent.seasons
    /\ \/ prTorrent.episodes = {}
       \/ /\ Cardinality(prTorrent.episodes) > JunkEpisodes
          /\ prItem.episodes \subseteq prTorrent.episodes
\* the torrent annotates only the item's season and exactly the item's episodes
ExactSeasonTorrent ==
    prTorrent.seasons = {prItem.number} /\ prTorrent.episodes = prItem.episodes

C18_CountryMustBeEqual ==
    (/\ pc = "prFiltered"
     /\ <<prItem, prTorrent>> \in CountryCases
     /\ ~prItem.anime
     /\ prTorrent.country # NoCountry)
        => (prAccepted <=> prTorrent.country = GetItemCountry(prItem))

\* C19: a torrent that annotates a year is accepted only if that year differs
\* from the item's aired year by at most 1, and is accepted with such a year
\* when nothing else rejects it; a difference of 2 is rejected.
C19_YearWithinOne ==
    (pc = "prFiltered" /\ prTorrent.year # 0) =>
        LET diff == IF prTorrent.year >= prItem.year THEN prTorrent.year - prItem.year
                    ELSE prItem.year - prTorrent.year
        IN /\ prAccepted => diff <= 1
           /\ (<<prItem, prTorrent>> \in YearCases /\ ~prTorrent.garbage)
                 => (prAccepted <=> diff <= 1)

\* a torrent one year off the item's aired year is accepted
C19_OneYearOffAccepted ==
    /\ pc = "prFiltered"
    /\ prTorrent.year = prItem.year + 1
    /\ prAccepted

\* the positions in vfsCalls of the calls of one operation on one leaf
CallsOf(op, leaf) == {i \in DOMAIN vfsCalls : vfsCalls[i].op = op /\ vfsCalls[i].leaf = leaf}
\* remove(leaf) and add(leaf) were each called once, remove first
RemovedThenAdded(leaf) ==
    /\ Cardinality(CallsOf("remove", leaf)) = 1
    /\ Cardinality(CallsOf("add", leaf)) = 1
    /\ \A r \in CallsOf("remove", leaf), a \in CallsOf("add", leaf) : r < a

RuleMissing(have, expected) ==
    IF have = {} THEN 1..expected
    ELSE ((1..MaxOf(have)) \ have) \cup ((MaxOf(have) + 1)..expected)

\* C21: for a season with a known expected episode count, the episodes the
\* validator treats as missing are the gaps below the highest episode held
\* together with the episodes after it up to the expected count, also when
\* the number of episodes held is not below the expected count.
C21_MissingIsGapsAndTail ==
    (pc \in {"evCall", "evDone"} /\ evExpected # 0)
        => Range(evMissing) = RuleMissing(evHave, evExpected)

\* the positions in evQueued of the steps of one kind for one episode
StepsOf(op, n) == {i \in DOMAIN evQueued : evQueued[i].op = op /\ evQueued[i].episode = n}

RequestsFor(n) ==
    {k \in DOMAIN posts : posts[k].from = "validator" /\ n \in Range(posts[k].items)}

\* C23: a missing episode for which the harvester returned no releases is
\* queued with w2p_attempt_count = 1, and over repeated validations of the
\* season no episode is named in more than 3 harvester requests.
C23_EmptyHarvestCountedAndParked ==
    /\ \A i \in DOMAIN evQueued :
          (evQueued[i].op = "create" /\ ~evQueued[i].releases) => evQueued[i].attempts = 1
    /\ \A n \in 1..(MaxEp + 1) : Cardinality(RequestsFor(n)) <= MaxAttempts

\* every desired infohash of the item has a filesystem entry
AllDesiredPresent ==
    LET ds == DesiredStreams(<<>>, streams, KeepVersions(cfgKeep, streams))
    IN \A i \in DOMAIN ds :
          \E e \in Range(entries) : Lower(e.infohash) = Lower(ds[i].infohash)
\* a pass that found nothing to download, before its end
NothingToDo == pc = "cleanup" /\ tried = 0 /\ todo = <<>> /\ probes = {}

\* C24: a pass that starts, with a provider available, on an item whose
\* desired infohashes all have a filesystem entry goes straight to its end
\* without pre-validating or attempting any stream and without deleting a
\* torrent, and neither its start nor its end changes filesystem_entries,
\* the blacklisted streams, the streams or active_stream.
C24_NothingToDoPassChangesNothing ==
    [][/\ (pc \in {"idle", "done"} /\ pc' \notin {"idle", "done"} /\ AllDesiredPresent)
          => /\ NothingToDo'
             /\ entries' = entries /\ active' = active
             /\ blacklisted' = blacklisted /\ streams' = streams
       /\ NothingToDo
          => /\ pc' = "done"
             /\ deletes' = {}
             /\ entries' = entries /\ active' = active
             /\ blacklisted' = blacklisted /\ streams' = streams]_vars

\* a pass over an item that has entries for all its desired infohashes is
\* about to end
C24_PassOverCompleteItem ==
    NothingToDo /\ entries # <<>> /\ AllDesiredPresent


\* C25: (violated) while a Show or Season event is handled, no write goes to
\* the active_stream or filesystem_entries of an episode that has its own event
\* in flight.
C25_WritesOnlyByOwningWorker ==
    \A w \in shWrites :
        ItemType(w.by) \in {"show", "season"} => ~(w.to # w.by /\ w.busy)

\* C30: (violated) no MediaEntry comes from a file whose episodes include 0 or
\* whose season is 0.
C30_NoEntryFromSpecials ==
    \A w \in shWrites :
        w.field = "filesystem_entries" => ~w.special


\* C26: (violated) no worker takes the minimum of an empty _service_cooldowns.
C26_NoMinimumOfEmptyMap == ccMinEmpty = FALSE


\* C27: (violated) whenever upgrade has returned on a schema that has the
\* table, the column and its index are both present and nothing has raised.
C27_UpgradeEndsWithColumnAndIndex ==
    \A i \in MgIds :
        (mgDone[i] = "upgrade" /\ mgSchema[i].table)
            => (mgSchema[i].column /\ mgSchema[i].index /\ ~mgError)


\* C28: (violated) the lookup returns the profile of the mapping whose path is
\* the longest prefix of the query, and default_profile when no mapping path
\* is a prefix.
C28_LongestPrefixProfile ==
    pc = "ppDone" =>
        LET ms == {m \in ppMappings : IsPrefix(m.path, ppQuery)}
        IN IF ms = {} THEN ppResult = DefaultProfile
           ELSE \E m \in ms : /\ \A o \in ms : Len(o.path) <= Len(m.path)
                              /\ ppResult = m.profile_name

\* the number of entries select_top_n is to return
TopCount ==
    IF tnKeep <= 0 THEN 0 ELSE IF tnKeep < Len(tnStreams) THEN tnKeep ELSE Len(tnStreams)

EpisodeWrites == {w \in shWrites : w.to \in 1..MaxShowEps}

\* C31: no write of file matching goes to an episode that is Completed or
\* Symlinked, and within one container pass the writes to one episode all
\* come from one file.
C31_FinalEpisodesUntouchedOneFilePerPass ==
    /\ \A w \in EpisodeWrites : w.to \notin shFinal
    /\ \A w, v \in EpisodeWrites :
          (w.to = v.to /\ w.file[1] = v.file[1]) => w.file = v.file

\* an episode that got its entry in one pass (it is Downloaded) gets another
\* entry in a later pass, while a second file of that pass names it too
C31_DownloadedEpisodeUpdatedAgain ==
    \E w, v \in EpisodeWrites :
        /\ w.to = v.to /\ w.file[1] # v.file[1]
        /\ w.field = "filesystem_entries" /\ v.field = "filesystem_entries"
        /\ \E k \in ShWorkers : /\ shWorker[k].pass = v.file[1]
                                 /\ shWorker[k].left = 0
                                 /\ v.file[2] = MaxShFiles


\* C32: (violated) with a provider that answers every call, a container with a
\* torrent_id is used without add_torrent, and a container without one leads
\* to add_torrent first and to a DownloadedTorrent with an id.
C32_BothKindsOfContainerDownload ==
    (pc = "dcDone" /\ dcAnswers.info = "ok" /\ dcAnswers.select = "ok") =>
        IF dcContainer.torrent_id # NoHash
        THEN "add_torrent" \notin Range(dcCalls) /\ dcReturn = <<"returned", dcContainer.torrent_id>>
        ELSE /\ dcCalls # <<>> /\ dcCalls[1] = "add_torrent"
             /\ dcReturn[1] = "returned" /\ dcReturn[2] # NoHash


\* the provider the next iteration of the provider loop calls for the stream at
\* the head of the loop
ServiceInTurn ==
    IF Lower(Head(todo).infohash) \in DOMAIN validated
    THEN validated[Lower(Head(todo).infohash)].svc
    ELSE avail[svcIdx]

\* C33: (violated) when the provider loop turns to a provider for a stream that
\* has not itself met an open circuit breaker, that provider is not in a
\* cooldown whose deadline is still ahead.
C33_NoCallToCoolingProvider ==
    (pc = "svc" /\ ~streamHitCB) =>
        ~(ServiceInTurn \in DOMAIN cooldowns /\ cooldowns[ServiceInTurn] > now)


\* the streams of the pass that have no filesystem entry yet
PendingStreams ==
    SelectSeq(DesiredStreams(<<>>, streams, keep),
              LAMBDA s : Lower(s.infohash) \notin existing)

\* C34: (violated) when the stream loop is entered, before any attempt, the
\* streams it is going to process are a permutation of the pending streams.
C34_PrevalidationKeepsEveryPendingStream ==
    (pc \in {"svc", "cleanup"} /\ tried = 0 /\ svcIdx = 1 /\ pvLeft = <<>>)
        => /\ Len(todo) = Len(PendingStreams)
           /\ Range(todo) = Range(PendingStreams)


\* the positive per-file sizes of a candidate
PositiveSizes(c) == SelectSeq(c.sizes, LAMBDA x : x > 0)

\* m is the median of the sizes p, halves rounded down: the mean of a lower and
\* an upper middle value
IsMedianOf(m, p) ==
    LET n == Len(p)
        below(v) == Cardinality({i \in DOMAIN p : p[i] <= v})
        above(v) == Cardinality({i \in DOMAIN p : p[i] >= v})
    IN \E a, b \in Range(p) :
          /\ below(a) >= (n + 1) \div 2 /\ above(a) >= n \div 2 + 1
          /\ below(b) >= n \div 2 + 1 /\ above(b) >= (n + 1) \div 2
          /\ m = (a + b) \div 2

\* the size the ranking uses for a candidate
RankSize(c) ==
    IF PositiveSizes(c) = <<>> THEN c.total
    ELSE CHOOSE m \in 0..(2 * MaxOf(Range(c.sizes))) : IsMedianOf(m, PositiveSizes(c))

\* a is at least as good as b: target season first, then single season, then size
RanksNotAfter(a, b) ==
    LET ma == a.season # 0 /\ mdTarget # 0 /\ a.season = mdTarget
        mb == b.season # 0 /\ mdTarget # 0 /\ b.season = mdTarget
        sa == a.season # 0
        sb == b.season # 0
    IN \/ (ma /\ ~mb)
       \/ (ma = mb /\ sa /\ ~sb)
       \/ (ma = mb /\ sa = sb /\ RankSize(a) >= RankSize(b))

C36_YieldAfterEveryThirdStreamOnly ==
    /\ \A i \in DOMAIN ydYieldsAt : ydYieldsAt[i] = YieldEvery * i
    /\ Len(ydYieldsAt) = ydTried \div YieldEvery

\* C37: (violated) retention leaves, within each profile, the entries of the
\* desired infohashes first and in desired order, then the other retained
\* entries in the order of the item's ranked Streams; and retention without a
\* desired list retains the same entries in the same order as retention with
\* the desired list collected from the same Streams.
PosIn(q, x) == MinOf({i \in DOMAIN q : q[i] = x})

DesiredFromStreams ==
    MapSeq(DesiredStreams(<<>>, streams, IF keep > 0 THEN keep ELSE 1),
           LAMBDA s : Lower(s.infohash))

RankedHashes == OrderedHashes(streams, <<>>)

DesiredFirstThenRanked(kept, des) ==
    \A i, j \in DOMAIN kept :
        (i < j /\ kept[i].profile = kept[j].profile) =>
            LET hi == Lower(kept[i].infohash)
                hj == Lower(kept[j].infohash)
            IN /\ hj \in Range(des) => hi \in Range(des) /\ PosIn(des, hi) <= PosIn(des, hj)
               /\ (hi \notin Range(des) /\ hi \in Range(RankedHashes)
                       /\ hj \in Range(RankedHashes))
                      => PosIn(RankedHashes, hi) <= PosIn(RankedHashes, hj)

C38_PromotedTorrentNeverDeleted ==
    [][\A d \in deletes' \ deletes : <<d.svc, d.tid>> \notin promoted]_vars

\* C39: (violated) each (Stream, provider) pair is attempted at most once in a
\* pass: no iteration of the provider loop after a Stream's first one starts
\* with the Stream's pre-validated container still in place, which sends the
\* attempt to the validating provider again.
C39_ValidatingProviderAttemptedOnce ==
    (pc = "svc" /\ svcIdx > 1) => Lower(Head(todo).infohash) \notin DOMAIN validated

\* C40: (violated) whenever a provider attempt counts its Stream as a success
\* and adds the infohash to existing_infohashes, the item then holds an entry
\* with that infohash and the Stream's profile.
C40_SuccessLeavesEntry ==
    [][pc = "svc" =>
          \A h \in existing' \ existing :
              \E i \in DOMAIN entries' : /\ Lower(entries'[i].infohash) = h
                                         /\ entries'[i].profile = Head(todo).profile]_vars

====
